---- MODULE Spec2Model ----
(***************************************************************************)
(* A model of the bisimulation algorithms of this repository:              *)
(*   - the graph entities (utilities/graph_entities.py),                   *)
(*   - FBA, the rank-layered algorithm (dovier_piazza_policriti/fba.py),   *)
(*   - SAHA, the incremental update (saha/saha.py).                        *)
(* Vertices are their original labels 0..NumVertices-1.  Objects (blocks,  *)
(* edges, counts, SCCs) live in sequences and are referred to by their     *)
(* index; 0 stands for Python's None.                                      *)
(***************************************************************************)
EXTENDS Integers, Sequences, FiniteSets, TLC

\* ------------------------------------------------------------------ bounds
NumVertices == 3
V == 0..(NumVertices - 1)

\* float("-inf"): ranks are the naturals and NegInf, NegInf below all of them.
NegInf == -1
\* Python's None where an object index is expected.
None == 0

\* ----------------------------------------------------------------- helpers
RECURSIVE FoldSeq(_, _, _)
FoldSeq(Op(_, _), acc, s) ==
  IF s = <<>> THEN acc ELSE FoldSeq(Op, Op(acc, Head(s)), Tail(s))

RECURSIVE SetToSeq(_)
SetToSeq(S) ==
  IF S = {} THEN <<>>
  ELSE LET m == CHOOSE x \in S : \A y \in S : x <= y
       IN <<m>> \o SetToSeq(S \ {m})

SeqToSet(s) == {s[i] : i \in 1..Len(s)}

RemoveFromSeq(s, x) == SelectSeq(s, LAMBDA y : y # x)

MaxOf(S) == CHOOSE x \in S : \A y \in S : y <= x

\* r + 1 on a rank: float("-inf") + 1 is float("-inf").
PlusOne(r) == IF r = NegInf THEN NegInf ELSE r + 1

\* ------------------------------------------------------- graph definitions
\* The edges of a graph are a set of pairs <<source, destination>>.
Succ(G, v) == {e[2] : e \in {d \in G : d[1] = v}}
Pred(G, v) == {e[1] : e \in {d \in G : d[2] = v}}

RECURSIVE ReachFrom(_, _)
ReachFrom(G, S) ==
  LET T == S \cup {e[2] : e \in {d \in G : d[1] \in S}}
  IN IF T = S THEN S ELSE ReachFrom(G, T)

\* reachable in zero or more steps / in one or more steps
Reach(G, v) == ReachFrom(G, {v})
ReachPlus(G, v) == ReachFrom(G, Succ(G, v))

SccOf(G, v) == {w \in Reach(G, v) : v \in Reach(G, w)}
SccSucc(G, S) == {SccOf(G, e[2]) : e \in {d \in G : d[1] \in S}} \ {S}

\* v is on a cycle (its SCC has an edge to itself)
OnCycle(G, v) == v \in ReachPlus(G, v)
\* well-founded: no cycle is reachable
CannotReachCycle(G, v) == \A w \in Reach(G, v) : ~OnCycle(G, w)

\* The inductive definition of the rank over the DAG of the SCCs.
RECURSIVE RankOfScc(_, _)
RankOfScc(G, S) ==
  LET v == CHOOSE x \in S : TRUE
      succs == SccSucc(G, S)
  IN IF succs = {}
     THEN IF CannotReachCycle(G, v) THEN 0 ELSE NegInf
     ELSE MaxOf({ LET w == CHOOSE x \in T : TRUE
                  IN IF CannotReachCycle(G, w)
                     THEN PlusOne(RankOfScc(G, T)) ELSE RankOfScc(G, T)
                  : T \in succs })

RankDef(G, v) == RankOfScc(G, SccOf(G, v))

\* The maximum bisimulation of G, as the greatest fixpoint of the transfer
\* property, and the coarsest bisimulation inside a given equivalence.
Transfer(G, R, u, v) ==
  /\ \A u2 \in Succ(G, u) : \E v2 \in Succ(G, v) : <<u2, v2>> \in R
  /\ \A v2 \in Succ(G, v) : \E u2 \in Succ(G, u) : <<u2, v2>> \in R

RECURSIVE BisimIn(_, _)
BisimIn(G, R) ==
  LET R2 == {p \in R : Transfer(G, R, p[1], p[2])}
  IN IF R2 = R THEN R ELSE BisimIn(G, R2)

Bisim(G) == BisimIn(G, V \X V)


\* =========================================================================
\* FBA (dovier_piazza_policriti/fba.py).  An FBA state st is a record
\*   vx           [V -> [label, rank, qblock, image, counterimage, visited]]
\*   blocks       the _Block objects: Seq([vertexes, split_helper_block])
\*   partition    Seq(Seq(block index)), indexed by rank_to_partition_idx + 1
\*   collapse_map survivor label -> the vertexes collapsed into it
\*   todo         the blocks pta returned for the current rank, not yet handled
\*   scaled       scaled_idx_to_vertex of the current rank
\*   pc           the place in fba: collapse_inf, ranks, emit, done
\*   idx          partition_idx of the loop over the ranks (0-based as in Python)
\*   rscp         the list of tuples returned
\* =========================================================================

\* prepare_graph: every vertex with its rank and the list of its predecessors.
prepare_graph(G) ==
  [v \in V |-> [label |-> v,
                rank |-> RankDef(G, v),
                qblock |-> None,
                image |-> SetToSeq(Succ(G, v)),
                counterimage |-> SetToSeq(Pred(G, v)),
                visited |-> FALSE]]

\* _Block(vertexes, xblock): a new block holding the vertexes, in order.
FbaNewBlock(st, vertexes) ==
  LET b == Len(st.blocks) + 1
  IN [st EXCEPT
        !.blocks = Append(@, [vertexes |-> vertexes, split_helper_block |-> None]),
        !.vx = [v \in V |-> IF v \in SeqToSet(vertexes)
                            THEN [@[v] EXCEPT !.qblock = b] ELSE @[v]]]

FbaAppendVertex(st, b, v) ==
  [st EXCEPT !.blocks[b].vertexes = Append(@, v), !.vx[v].qblock = b]

FbaRemoveVertex(st, b, v) ==
  [st EXCEPT !.blocks[b].vertexes = RemoveFromSeq(@, v), !.vx[v].qblock = None]

\* _Block.rank(): the rank of the first vertex of the block.
FbaBlockRank(st, b) == st.vx[Head(st.blocks[b].vertexes)].rank

rank_to_partition_idx(rank) == IF rank = NegInf THEN 0 ELSE rank + 1

\* a collapse whose survivor is also listed among the collapsed vertexes
collapseSurvivorToo(st, b) ==
  LET vs == st.blocks[b].vertexes
  IN IF Len(vs) > 0
     THEN LET survivor == Head(vs)
              collapsed == vs
              ci == FoldSeq(LAMBDA acc, w : acc \o st.vx[w].counterimage,
                            st.vx[survivor].counterimage, collapsed)
          IN [st |-> [st EXCEPT !.vx[survivor].counterimage = ci,
                                !.blocks[b].vertexes = <<survivor>>],
              survivor |-> survivor, collapsed |-> collapsed, some |-> TRUE]
     ELSE [st |-> st, survivor |-> 0, collapsed |-> <<>>, some |-> FALSE]

\* collapse(block): the first vertex survives, takes the counterimage of each
\* of the others, which leave the block.  The result holds the new state, the
\* survivor (None for an empty block) and the collapsed vertexes.
collapse(st, b) ==
  LET vs == st.blocks[b].vertexes
  IN IF Len(vs) > 0
     THEN LET survivor == Head(vs)
              collapsed == Tail(vs)
              ci == FoldSeq(LAMBDA acc, w : acc \o st.vx[w].counterimage,
                            st.vx[survivor].counterimage, collapsed)
          IN [st |-> [st EXCEPT !.vx[survivor].counterimage = ci,
                                !.blocks[b].vertexes = <<survivor>>],
              survivor |-> survivor, collapsed |-> collapsed, some |-> TRUE]
     ELSE [st |-> st, survivor |-> 0, collapsed |-> <<>>, some |-> FALSE]

\* build_block_counterimage(block): the predecessors of the vertexes of the
\* block, each once; the visited flag marks the ones already taken and is
\* released at the end for the ones taken.
build_block_counterimageNoRelease(st, b) ==
  LET step(acc, w) ==
        IF ~acc.vis[w] THEN [list |-> Append(acc.list, w),
                             vis |-> [acc.vis EXCEPT ![w] = TRUE]]
        ELSE acc
      perVertex(acc, x) == FoldSeq(step, acc, st.vx[x].counterimage)
      r == FoldSeq(perVertex,
                   [list |-> <<>>, vis |-> [v \in V |-> st.vx[v].visited]],
                   st.blocks[b].vertexes)
  IN [list |-> r.list,
      st |-> [st EXCEPT !.vx = [v \in V |-> [@[v] EXCEPT !.visited = r.vis[v]]]]]

build_block_counterimage(st, b) ==
  LET step(acc, w) ==
        IF ~acc.vis[w] THEN [list |-> Append(acc.list, w),
                             vis |-> [acc.vis EXCEPT ![w] = TRUE]]
        ELSE acc
      perVertex(acc, x) == FoldSeq(step, acc, st.vx[x].counterimage)
      r == FoldSeq(perVertex,
                   [list |-> <<>>, vis |-> [v \in V |-> st.vx[v].visited]],
                   st.blocks[b].vertexes)
  IN [list |-> r.list,
      st |-> [st EXCEPT !.vx = [v \in V |->
                 [@[v] EXCEPT !.visited = r.vis[v] /\ v \notin SeqToSet(r.list)]]]]

\* The loop of split_upper_ranks over block_counterimage: a vertex of higher
\* rank than the block moves to the split helper block of its block.
SplitMoveFreshHelper(acc, vertex, blockRank) ==
  IF acc.st.vx[vertex].rank > blockRank
  THEN LET q == acc.st.vx[vertex].qblock
           fresh == acc.st.blocks[q].split_helper_block = None
           s1 == FbaNewBlock(acc.st, <<>>)
           h == Len(s1.blocks)
           s2 == [s1 EXCEPT !.blocks[q].split_helper_block = h]
           s3 == FbaAppendVertex(FbaRemoveVertex(s2, q, vertex), h, vertex)
       IN [st |-> s3,
           modified |-> IF fresh THEN Append(acc.modified, q) ELSE acc.modified]
  ELSE acc

SplitMoveRankTestReversed(acc, vertex, blockRank) ==
  IF acc.st.vx[vertex].rank < blockRank
  THEN LET q == acc.st.vx[vertex].qblock
           fresh == acc.st.blocks[q].split_helper_block = None
           s1 == IF fresh THEN FbaNewBlock(acc.st, <<>>) ELSE acc.st
           h == IF fresh THEN Len(s1.blocks) ELSE acc.st.blocks[q].split_helper_block
           s2 == [s1 EXCEPT !.blocks[q].split_helper_block = h]
           s3 == FbaAppendVertex(FbaRemoveVertex(s2, q, vertex), h, vertex)
       IN [st |-> s3,
           modified |-> IF fresh THEN Append(acc.modified, q) ELSE acc.modified]
  ELSE acc

SplitMoveSameRankToo(acc, vertex, blockRank) ==
  IF acc.st.vx[vertex].rank >= blockRank
  THEN LET q == acc.st.vx[vertex].qblock
           fresh == acc.st.blocks[q].split_helper_block = None
           s1 == IF fresh THEN FbaNewBlock(acc.st, <<>>) ELSE acc.st
           h == IF fresh THEN Len(s1.blocks) ELSE acc.st.blocks[q].split_helper_block
           s2 == [s1 EXCEPT !.blocks[q].split_helper_block = h]
           s3 == FbaAppendVertex(FbaRemoveVertex(s2, q, vertex), h, vertex)
       IN [st |-> s3,
           modified |-> IF fresh THEN Append(acc.modified, q) ELSE acc.modified]
  ELSE acc

SplitMove(acc, vertex, blockRank) ==
  IF acc.st.vx[vertex].rank > blockRank
  THEN LET q == acc.st.vx[vertex].qblock
           fresh == acc.st.blocks[q].split_helper_block = None
           s1 == IF fresh THEN FbaNewBlock(acc.st, <<>>) ELSE acc.st
           h == IF fresh THEN Len(s1.blocks) ELSE acc.st.blocks[q].split_helper_block
           s2 == [s1 EXCEPT !.blocks[q].split_helper_block = h]
           s3 == FbaAppendVertex(FbaRemoveVertex(s2, q, vertex), h, vertex)
       IN [st |-> s3,
           modified |-> IF fresh THEN Append(acc.modified, q) ELSE acc.modified]
  ELSE acc

\* split_upper_ranks(partition, block)
split_upper_ranks(st, b) ==
  LET bc == build_block_counterimage(st, b)
      blockRank == FbaBlockRank(st, b)
      moved == FoldSeq(LAMBDA acc, w : SplitMove(acc, w, blockRank),
                       [st |-> bc.st, modified |-> <<>>], bc.list)
      insert(s, q) ==
        LET h == s.blocks[q].split_helper_block
            k == rank_to_partition_idx(FbaBlockRank(s, h)) + 1
        IN [s EXCEPT !.partition[k] = Append(@, h),
                     !.blocks[q].split_helper_block = None]
  IN FoldSeq(insert, moved.st, moved.modified)

\* create_initial_partition(vertexes, max_rank): one block for each rank.
create_initial_partition(vx, max_rank) ==
  LET n == IF max_rank # NegInf THEN max_rank + 2 ELSE 1
      st0 == [vx |-> vx,
              blocks |-> [i \in 1..n |-> [vertexes |-> <<>>,
                                          split_helper_block |-> None]],
              partition |-> [i \in 1..n |-> <<i>>],
              collapse_map |-> <<>>,
              todo |-> <<>>,
              scaled |-> <<>>,
              idx |-> 0,
              rscp |-> <<>>,
              pc |-> "collapse_inf"]
  IN FoldSeq(LAMBDA s, v :
               FbaAppendVertex(s, s.partition[rank_to_partition_idx(s.vx[v].rank) + 1][1], v),
             st0, SetToSeq(V))


\* The classes of an equivalence R over the vertexes of the sequence vs, each
\* in the order of vs, the classes in the order of their first vertex.
RECURSIVE ClassesOf(_, _)
ClassesOf(R, vs) ==
  IF vs = <<>> THEN <<>>
  ELSE LET x == Head(vs)
       IN <<SelectSeq(vs, LAMBDA y : <<x, y>> \in R)>>
          \o ClassesOf(R, SelectSeq(vs, LAMBDA y : <<x, y>> \notin R))

\* pta(blocks) of the PT kernel, on the vertexes vs of the blocks, with the
\* edges E among them: the coarsest stable refinement of the blocks.
pta(E, sameBlock, vs) ==
  LET inside == SeqToSet(vs)
      sub == {e \in E : e[1] \in inside /\ e[2] \in inside}
      R0 == {p \in inside \X inside : sameBlock[p[1]] = sameBlock[p[2]]}
  IN ClassesOf(BisimIn(sub, R0), vs)

FbaEdges(st) == {e \in V \X V : e[2] \in SeqToSet(st.vx[e[1]].image)}

\* fba, lines 179-197: prepare the graph, build the initial partition, collapse
\* B_{-infty} and split the upper ranks with respect to it.
FbaPrepareStep(G) ==
  LET vx == prepare_graph(G)
      max_rank == MaxOf({vx[v].rank : v \in V})
  IN create_initial_partition(vx, max_rank)

FbaCollapseInfStep(st) ==
  LET b == st.partition[1][1]
      c == collapse(st, b)
      s1 == IF c.some
            THEN split_upper_ranks(
                   [c.st EXCEPT !.collapse_map =
                      (st.vx[c.survivor].label :> c.collapsed) @@ @], b)
            ELSE c.st
  IN [s1 EXCEPT !.idx = 1,
                !.pc = IF Len(s1.partition) > 1 THEN "ranks" ELSE "emit"]

\* fba, lines 200-213: scale the labels of the vertexes of the rank, apply
\* pta to its blocks and clear the rank in the partition.
FbaPtaStep(st) ==
  LET bs == st.partition[st.idx + 1]
      vs == FoldSeq(LAMBDA acc, b : acc \o st.blocks[b].vertexes, <<>>, bs)
      pos(v) == CHOOSE i \in 1..Len(vs) : vs[i] = v
      s1 == [st EXCEPT !.vx = [v \in V |->
                IF v \in SeqToSet(vs) THEN [@[v] EXCEPT !.label = pos(v) - 1]
                ELSE @[v]]]
      classes == pta(FbaEdges(st), [v \in V |-> st.vx[v].qblock], vs)
      rscp == [i \in 1..Len(classes) |->
                 [j \in 1..Len(classes[i]) |-> s1.vx[classes[i][j]].label]]
  IN [s1 EXCEPT !.scaled = vs,
                !.todo = rscp,
                !.partition[st.idx + 1] = <<>>,
                !.idx = IF rscp = <<>> THEN st.idx + 1 ELSE st.idx,
                !.pc = IF rscp = <<>> /\ st.idx + 1 >= Len(st.partition)
                       THEN "emit" ELSE "ranks"]

\* fba, lines 217-236: one block of the rscp of the rank.
FbaBlockStep(st) ==
  LET block == Head(st.todo)
      block_vertexes == [j \in 1..Len(block) |-> st.scaled[block[j] + 1]]
      s1 == [st EXCEPT !.vx = [v \in V |->
                IF v \in SeqToSet(block_vertexes) THEN [@[v] EXCEPT !.label = v]
                ELSE @[v]]]
      s2 == FbaNewBlock(s1, block_vertexes)
      internal_block == Len(s2.blocks)
      c == collapse(s2, internal_block)
      s3 == IF c.some
            THEN split_upper_ranks(
                   [c.st EXCEPT
                      !.collapse_map = (c.st.vx[c.survivor].label :> c.collapsed) @@ @,
                      !.partition[st.idx + 1] = Append(@, internal_block)],
                   internal_block)
            ELSE c.st
      last == Len(st.todo) = 1
  IN [s3 EXCEPT !.todo = Tail(st.todo),
                !.idx = IF last THEN st.idx + 1 ELSE st.idx,
                !.pc = IF last /\ st.idx + 1 >= Len(st.partition)
                       THEN "emit" ELSE "ranks"]

\* fba, lines 238-258: the partition in the external representation.
FbaEmitStep(st) ==
  LET all == FoldSeq(LAMBDA acc, r : acc \o r, <<>>, st.partition)
      tupleOf(b) ==
        LET sv == Head(st.blocks[b].vertexes)
            lbl == st.vx[sv].label
        IN <<lbl>> \o (IF lbl \in DOMAIN st.collapse_map
                       THEN [j \in 1..Len(st.collapse_map[lbl]) |->
                               st.vx[st.collapse_map[lbl][j]].label]
                       ELSE <<>>)
      out == FoldSeq(LAMBDA acc, b :
                       IF Len(st.blocks[b].vertexes) > 0
                       THEN Append(acc, tupleOf(b)) ELSE acc,
                     <<>>, all)
  IN [st EXCEPT !.rscp = out, !.pc = "done"]

FbaStep(st) ==
  CASE st.pc = "collapse_inf" -> FbaCollapseInfStep(st)
    [] st.pc = "ranks" /\ st.todo = <<>> -> FbaPtaStep(st)
    [] st.pc = "ranks" /\ st.todo # <<>> -> FbaBlockStep(st)
    [] st.pc = "emit" -> FbaEmitStep(st)
    [] OTHER -> st

RECURSIVE FbaRun(_)
FbaRun(st) == IF st.pc = "done" THEN st ELSE FbaRun(FbaStep(st))

\* fba(graph): the list of tuples returned.
fba(G) == FbaRun(FbaPrepareStep(G)).rscp

\* a list of tuples as a set of sets
AsSetOfSets(rscp) == {SeqToSet(rscp[i]) : i \in 1..Len(rscp)}

\* =========================================================================
\* The graph entities of SAHA (utilities/graph_entities.py).  A heap h is a
\* record of the objects:
\*   vx      [V -> _Vertex]  (label, qblock, visited, image, counterimage,
\*           allow_visit, old_qblock_id, scc, initial_partition_block_id,
\*           original_img, original_counterimg, original_count)
\*   edges   Seq(_Edge)    (source, destination, count)
\*   counts  Seq(_Count)   (vertex, value)
\*   qblocks Seq(_QBlock)  (vertexes, split_helper_block, visited, deteached,
\*           tried_merge, xblock)
\*   xblocks Seq(_XBlock)  (qblocks)
\*   sccs    Seq(_SCC)     (label, rank, has_wf, wf, image, counterimage,
\*           vertexes, visited); image and counterimage hold the SCC objects
\*           of the dict, whose keys are their labels
\*   err     the exception raised, "" for none
\*   merges  the merges made: the pairs of the initial_partition_block_id of
\*           the two blocks of each call of _QBlock.merge (a history)
\* =========================================================================

\* ---- _Vertex
VertexRank(h, v) == h.sccs[h.vx[v].scc].rank

add_to_image(h, v, e) == [h EXCEPT !.vx[v].image = Append(@, e)]
add_to_counterimage(h, v, e) == [h EXCEPT !.vx[v].counterimage = Append(@, e)]

\* ---- _QBlock
NewQBlock(h, xb) ==
  LET b == Len(h.qblocks) + 1
      h1 == [h EXCEPT !.qblocks = Append(@,
               [vertexes |-> <<>>, split_helper_block |-> None, visited |-> FALSE,
                deteached |-> FALSE, tried_merge |-> FALSE, xblock |-> xb])]
  IN IF xb = None THEN h1
     ELSE [h1 EXCEPT !.xblocks[xb].qblocks = Append(@, b)]

\* append_vertex: the vertex joins the list of the block and refers to it; it
\* is not removed from the list of the block it was in.
append_vertex(h, b, v) ==
  [h EXCEPT !.qblocks[b].vertexes = Append(@, v), !.vx[v].qblock = b]

remove_vertex(h, b, v) ==
  [h EXCEPT !.qblocks[b].vertexes = RemoveFromSeq(@, v), !.vx[v].qblock = None]

\* _QBlock.rank: None (here NoRank) for a block with no vertex
NoRank == -2
QBlockRank(h, b) ==
  IF h.qblocks[b].vertexes # <<>>
  THEN VertexRank(h, Head(h.qblocks[b].vertexes)) ELSE NoRank

\* _QBlock.initial_partition_block_id()
NoId == -1
QBlockInitialId(h, b) ==
  IF Len(h.qblocks[b].vertexes) > 0
  THEN h.vx[Head(h.qblocks[b].vertexes)].initial_partition_block_id ELSE NoId

\* _QBlock.merge(block2)
QBlockMerge(h, b1, b2) ==
  LET h1 == FoldSeq(LAMBDA acc, v : append_vertex(acc, b1, v), h,
                    h.qblocks[b2].vertexes)
  IN [h1 EXCEPT !.qblocks[b2].deteached = TRUE,
                !.merges = @ \cup {<<QBlockInitialId(h, b1), QBlockInitialId(h, b2)>>}]

\* _QBlock.fast_mitosis(extract_vertexes): the heap; the new block is the last
fast_mitosis(h, b, extract_vertexes) ==
  LET h1 == NewQBlock(h, h.qblocks[b].xblock)
      nb == Len(h1.qblocks)
  IN FoldSeq(LAMBDA acc, v : append_vertex(remove_vertex(acc, b, v), nb, v),
             h1, extract_vertexes)

\* ---- _XBlock
NewXBlock(h) == [h EXCEPT !.xblocks = Append(@, [qblocks |-> <<>>])]

append_qblock(h, xb, b) ==
  [h EXCEPT !.xblocks[xb].qblocks = Append(@, b), !.qblocks[b].xblock = xb]

\* ---- _Count
NewCount(h, v) == [h EXCEPT !.counts = Append(@, [vertex |-> v, value |-> 0])]

\* ---- _SCC
\* compute_image: the SCCs of the destinations of the edges of the vertexes of
\* the SCC; an edge inside the SCC makes it non-well-founded.
compute_imageNoSelfLoop(h, s) ==
  LET dests == {h.edges[e].destination :
                  e \in UNION {SeqToSet(h.vx[v].image) : v \in h.sccs[s].vertexes}}
      img == {h.vx[d].scc : d \in dests} \ {s}
  IN [h EXCEPT !.sccs[s].image = img]

compute_image(h, s) ==
  LET dests == {h.edges[e].destination :
                  e \in UNION {SeqToSet(h.vx[v].image) : v \in h.sccs[s].vertexes}}
      inside == \E d \in dests : h.vx[d].scc = s
      img == {h.vx[d].scc : d \in dests} \ {s}
  IN [h EXCEPT !.sccs[s].image = img,
               !.sccs[s].has_wf = @ \/ inside,
               !.sccs[s].wf = IF inside THEN FALSE ELSE @]

compute_counterimage(h, s) ==
  LET srcs == {h.edges[e].source :
                 e \in UNION {SeqToSet(h.vx[v].counterimage) : v \in h.sccs[s].vertexes}}
  IN [h EXCEPT !.sccs[s].counterimage = {h.vx[x].scc : x \in srcs} \ {s}]

\* The property _SCC.wf: computed at the first read and kept in _wf.  The
\* result is the heap after the read and the value read.
RECURSIVE SccWf(_, _)
SccWf(h, s) ==
  IF h.sccs[s].has_wf THEN [h |-> h, wf |-> h.sccs[s].wf]
  ELSE IF Cardinality(h.sccs[s].vertexes) > 1
       THEN [h |-> [h EXCEPT !.sccs[s].has_wf = TRUE, !.sccs[s].wf = FALSE],
             wf |-> FALSE]
       ELSE LET step(acc, t) ==
                  IF acc.stop THEN acc
                  ELSE LET r == SccWf(acc.h, t)
                       IN IF r.wf THEN [acc EXCEPT !.h = r.h]
                          ELSE [h |-> r.h, stop |-> TRUE]
                h0 == [h EXCEPT !.sccs[s].has_wf = TRUE, !.sccs[s].wf = TRUE]
                r == FoldSeq(step, [h |-> h0, stop |-> FALSE],
                             SetToSeq(h.sccs[s].image))
            IN IF r.stop
               THEN [h |-> [r.h EXCEPT !.sccs[s].wf = FALSE], wf |-> FALSE]
               ELSE [h |-> r.h, wf |-> TRUE]

\* _Vertex.wf, read and written
VertexWf(h, v) == SccWf(h, h.vx[v].scc)
SetVertexWf(h, v, val) ==
  [h EXCEPT !.sccs[h.vx[v].scc].has_wf = TRUE, !.sccs[h.vx[v].scc].wf = val]
SetVertexRank(h, v, r) == [h EXCEPT !.sccs[h.vx[v].scc].rank = r]

\* kosaraju: the SCCs of the graph, new _SCC objects (rank -infinity, no _wf,
\* no image), for the vertexes of the set region; the label of an SCC is its
\* smallest vertex.  The new objects are appended to sccs.
HeapEdges(h) == {<<h.edges[e].source, h.edges[e].destination>> : e \in 1..Len(h.edges)}

kosaraju(h, region) ==
  LET G == HeapEdges(h)
      roots == SetToSeq({v \in region : \A w \in SccOf(G, v) : v <= w})
      n == Len(h.sccs)
      idOf(v) == n + (CHOOSE i \in 1..Len(roots) : roots[i] \in SccOf(G, v))
  IN [h EXCEPT
        !.sccs = @ \o [i \in 1..Len(roots) |->
                   [label |-> roots[i], rank |-> NegInf, has_wf |-> FALSE,
                    wf |-> FALSE, image |-> {}, counterimage |-> {},
                    vertexes |-> SccOf(G, roots[i]), visited |-> FALSE]],
        !.vx = [v \in DOMAIN h.vx |-> IF v \in region THEN [@[v] EXCEPT !.scc = idOf(v)]
                            ELSE @[v]]]

\* ---- the graph as SAHA receives it
\* compute_initial_partition_block_id(vertex_labels)
RECURSIVE Pow2(_)
Pow2(n) == IF n = 0 THEN 1 ELSE 2 * Pow2(n - 1)

RECURSIVE SumOver(_, _)
SumOver(f, S) ==
  IF S = {} THEN 0
  ELSE LET x == CHOOSE y \in S : TRUE IN f[x] + SumOver(f, S \ {x})

compute_initial_partition_block_id(vertex_labels) ==
  SumOver([l \in vertex_labels |-> Pow2(l)], vertex_labels)

\* The objects of a graph G whose initial partition puts u and v together iff
\* init[u] = init[v]: the edges in the order of (source, destination), no
\* block, no count and no SCC yet.
BuildVertexes(G, init) ==
  LET n == Cardinality(DOMAIN init)
      es == SetToSeq({e[1] * n + e[2] : e \in G})
      src(i) == es[i] \div n
      dst(i) == es[i] % n
  IN [vx |-> [v \in DOMAIN init |->
                [label |-> v, qblock |-> None, visited |-> FALSE,
                 image |-> SetToSeq({i \in 1..Len(es) : src(i) = v}),
                 counterimage |-> SetToSeq({i \in 1..Len(es) : dst(i) = v}),
                 allow_visit |-> FALSE, old_qblock_id |-> None, scc |-> None,
                 initial_partition_block_id |->
                   compute_initial_partition_block_id({w \in DOMAIN init : init[w] = init[v]}),
                 original_img |-> <<>>, original_counterimg |-> <<>>,
                 original_count |-> None]],
      edges |-> [i \in 1..Len(es) |->
                   [source |-> src(i), destination |-> dst(i), count |-> None]],
      counts |-> <<>>, qblocks |-> <<>>, xblocks |-> <<>>, sccs |-> <<>>,
      err |-> "", merges |-> {}]

\* ---- the partition that SAHA receives
\* The RSCP of G inside the initial partition init, as the PT kernel leaves it:
\* one _QBlock for each class of the coarsest bisimulation that refines init
\* (the classes in the order of their smallest vertex), each in an _XBlock of
\* its own; one _Count for each vertex and each block it has an edge into,
\* shared by these edges, whose value is their number; the SCCs with their
\* image, counterimage, rank and wf.  The result is the heap and the list of
\* the blocks.
InitialSccs(G, h) ==
  [h EXCEPT !.sccs = [s \in 1..Len(h.sccs) |->
     [h.sccs[s] EXCEPT
        !.rank = RankOfScc(G, h.sccs[s].vertexes),
        !.has_wf = TRUE,
        !.wf = CannotReachCycle(G, h.sccs[s].label),
        !.image = {h.vx[CHOOSE x \in T : TRUE].scc : T \in SccSucc(G, h.sccs[s].vertexes)},
        !.counterimage = {t \in 1..Len(h.sccs) :
           /\ t # s
           /\ \E x \in h.sccs[t].vertexes, y \in h.sccs[s].vertexes : <<x, y>> \in G}]]]

InitialBlocks(h, classes) ==
  FoldSeq(LAMBDA acc, c :
            FoldSeq(LAMBDA a, v : append_vertex(a, Len(a.qblocks), v),
                    NewQBlock(NewXBlock(acc), Len(acc.xblocks) + 1), c),
          h, classes)

\* the count of an edge: one for each source and block of the destination
CountKey(h, e) ==
  h.edges[e].source * (Len(h.qblocks) + 1) + h.vx[h.edges[e].destination].qblock

InitialCountsOf(h, keys) ==
  [h EXCEPT
     !.counts = [i \in 1..Len(keys) |->
        [vertex |-> keys[i] \div (Len(h.qblocks) + 1),
         value |-> Cardinality({e \in 1..Len(h.edges) : CountKey(h, e) = keys[i]})]],
     !.edges = [e \in 1..Len(h.edges) |->
        [h.edges[e] EXCEPT
           !.count = CHOOSE i \in 1..Len(keys) : keys[i] = CountKey(h, e)]]]

InitialCounts(h) ==
  InitialCountsOf(h, SetToSeq({CountKey(h, e) : e \in 1..Len(h.edges)}))

InitialRscpOf(h, classes) ==
  [h |-> InitialCounts(InitialBlocks(h, classes)),
   rscp |-> [i \in 1..Len(classes) |-> i]]

InitialRscp(G, init) ==
  InitialRscpOf(
    InitialSccs(G, kosaraju(BuildVertexes(G, init), DOMAIN init)),
    ClassesOf(BisimIn(G, {p \in (DOMAIN init) \X (DOMAIN init) : init[p[1]] = init[p[2]]}),
              SetToSeq(DOMAIN init)))

\* ranked_split(partition, B, max_rank) of saha/ranked_pta.py: every vertex of
\* the counterimage of the witness block B whose rank is greater than the rank
\* of B leaves its block for the split helper of that block; the helpers that
\* received a vertex are new blocks of the partition, in the _XBlock of the
\* block they come from; a block that lost all of its vertexes leaves the
\* list.  The result is the heap and the new list of blocks.
RankedSplitMove(acc, vertex, blockRank) ==
  IF VertexRank(acc.h, vertex) > blockRank
  THEN LET q == acc.h.vx[vertex].qblock
           fresh == acc.h.qblocks[q].split_helper_block = None
           h1 == IF fresh
                 THEN LET a == NewQBlock(acc.h, acc.h.qblocks[q].xblock)
                      IN [a EXCEPT !.qblocks[q].split_helper_block = Len(a.qblocks)]
                 ELSE acc.h
           nb == h1.qblocks[q].split_helper_block
       IN [h |-> append_vertex(remove_vertex(h1, q, vertex), nb, vertex),
           modified |-> IF fresh THEN Append(acc.modified, q) ELSE acc.modified]
  ELSE acc

ranked_split(h, partition, B, max_rank) ==
  LET srcs == FoldSeq(
        LAMBDA acc, v :
          FoldSeq(LAMBDA a, e : IF h.edges[e].source \in SeqToSet(a) THEN a
                                ELSE Append(a, h.edges[e].source),
                  acc, h.vx[v].counterimage),
        <<>>, h.qblocks[B].vertexes)
      blockRank == QBlockRank(h, B)
      r == FoldSeq(LAMBDA acc, v : RankedSplitMove(acc, v, blockRank),
                   [h |-> h, modified |-> <<>>], srcs)
      helpers == [i \in 1..Len(r.modified) |->
                    r.h.qblocks[r.modified[i]].split_helper_block]
      h1 == FoldSeq(LAMBDA a, q : [a EXCEPT !.qblocks[q].split_helper_block = None],
                    r.h, r.modified)
  IN [h |-> h1,
      partition |-> SelectSeq(partition \o helpers,
                              LAMBDA b : h1.qblocks[b].vertexes # <<>>)]

\* pta(blocks) of the PT kernel on the blocks X, which share an _XBlock, over
\* the edges of the images of their vertexes: the coarsest stable refinement.
\* A block keeps the class of its first vertex, the other classes are new
\* blocks; every block of the result is in an _XBlock of its own.  (The counts
\* of the edges are those the caller has set; the caller overwrites them when
\* it restores the graph.)  The result is the heap and the list of blocks.
pta_blocks(h, X) ==
  LET vs == FoldSeq(LAMBDA acc, b : acc \o h.qblocks[b].vertexes, <<>>, X)
      E == {<<h.edges[e].source, h.edges[e].destination>> :
              e \in UNION {SeqToSet(h.vx[v].image) : v \in SeqToSet(vs)}}
      classes == pta(E, [v \in DOMAIN h.vx |-> h.vx[v].qblock], vs)
      split(acc, c) ==
        IF Head(acc.h.qblocks[acc.h.vx[Head(c)].qblock].vertexes) = Head(c)
        THEN acc
        ELSE LET h1 == fast_mitosis(acc.h, acc.h.vx[Head(c)].qblock, c)
             IN [h |-> h1, new |-> Append(acc.new, Len(h1.qblocks))]
      r == FoldSeq(split, [h |-> h, new |-> <<>>], classes)
      X2 == X \o r.new
      h2 == FoldSeq(LAMBDA a, b : append_qblock(NewXBlock(a), Len(a.xblocks) + 1, b),
                    r.h, X2)
  IN [h |-> h2, blocks |-> X2]

\* scc_finishing_time_list(sccs) of utilities/rank_computation.py: the SCCs of
\* the list, each after the SCCs of its image that are in the list.
RECURSIVE SccFinishingFrom(_, _, _)
SccFinishingFrom(h, left, done) ==
  IF left = <<>> THEN done
  ELSE LET inLeft == SeqToSet(left)
           ready == SelectSeq(left, LAMBDA s :
                      \A t \in h.sccs[s].image : t = s \/ t \notin inLeft)
           pick == IF ready = <<>> THEN Head(left) ELSE Head(ready)
       IN SccFinishingFrom(h, RemoveFromSeq(left, pick), Append(done, pick))

scc_finishing_time_list(h, sccs) == SccFinishingFrom(h, sccs, <<>>)

\* =========================================================================
\* SAHA (saha/saha.py): the functions, on a heap.
\* =========================================================================

\* add_edge(source, destination): the new edge takes the _Count of the first
\* edge of the image of the source, or a new one.  Adding 1 to the value of a
\* count that is None raises AttributeError.
add_edgeImageOnly(h, source, destination) ==
  LET e == Len(h.edges) + 1
      reuse == Len(h.vx[source].image) > 0
      h1 == IF reuse THEN h ELSE NewCount(h, source)
      c == IF reuse THEN h.edges[h.vx[source].image[1]].count ELSE Len(h1.counts)
  IN IF c = None THEN [h EXCEPT !.err = "AttributeError"]
     ELSE add_to_image([h1 EXCEPT !.edges = Append(@, [source |-> source,
                                                       destination |-> destination,
                                                       count |-> c]),
                                  !.counts[c].value = @ + 1],
                       source, e)

add_edge(h, source, destination) ==
  LET e == Len(h.edges) + 1
      reuse == Len(h.vx[source].image) > 0
      h1 == IF reuse THEN h ELSE NewCount(h, source)
      c == IF reuse THEN h.edges[h.vx[source].image[1]].count ELSE Len(h1.counts)
  IN IF c = None THEN [h EXCEPT !.err = "AttributeError"]
     ELSE LET h2 == [h1 EXCEPT !.edges = Append(@, [source |-> source,
                                                   destination |-> destination,
                                                   count |-> c]),
                              !.counts[c].value = @ + 1]
          IN add_to_counterimage(add_to_image(h2, source, e), destination, e)

\* find_vertexes(partition, label1, label2): the last vertex of the blocks of
\* the partition with the label, None when there is none (the caller raises).
FindVertex(h, partition, label) ==
  LET all == FoldSeq(LAMBDA acc, b : acc \o h.qblocks[b].vertexes, <<>>, partition)
      hits == SelectSeq(all, LAMBDA v : h.vx[v].label = label)
  IN IF hits = <<>> THEN [found |-> FALSE, vertex |-> 0]
     ELSE [found |-> TRUE, vertex |-> hits[Len(hits)]]

\* check_old_blocks_relation(source_vertex, destination_vertex)
check_old_blocks_relation(h, source_vertex, destination_vertex) ==
  LET img(v) == h.vx[v].image
      others == SelectSeq(h.qblocks[h.vx[source_vertex].qblock].vertexes,
                          LAMBDA v : v # source_vertex)
  IN \/ \E i \in 1..Len(img(source_vertex)) :
          h.vx[h.edges[img(source_vertex)[i]].destination].label
            = h.vx[destination_vertex].label
     \/ /\ others # <<>>
        /\ \E i \in 1..Len(img(Head(others))) :
             h.vx[h.edges[img(Head(others))[i]].destination].qblock
               = h.vx[destination_vertex].qblock

\* check_new_scc: the backward depth-first visit.  acc holds the heap, the
\* finishing_time_list, visited_vertexes and the flag.
RECURSIVE CheckNewSccVisit(_, _, _)
CheckNewSccVisit(acc, current_source, destination) ==
  LET step(a, e) ==
        LET x == a.h.edges[e].source
            a1 == IF x = destination THEN [a EXCEPT !.found = TRUE] ELSE a
        IN IF ~a1.h.vx[x].visited
           THEN CheckNewSccVisit(
                  [a1 EXCEPT !.h.vx[x].visited = TRUE,
                             !.visited_vertexes = Append(@, x),
                             !.h.qblocks[a1.h.vx[x].qblock].visited = TRUE],
                  x, destination)
           ELSE a1
      r == FoldSeq(step, acc, acc.h.vx[current_source].counterimage)
  IN [r EXCEPT !.ftl = Append(@, current_source)]

\* check_new_scc without lines 122-125: the root is not marked as visited
check_new_sccRootUnmarked(h, current_source, destination) ==
  LET r == CheckNewSccVisit([h |-> h, ftl |-> <<>>, visited_vertexes |-> <<>>,
                             found |-> FALSE],
                            current_source, destination)
  IN [h |-> [r.h EXCEPT !.vx = [v \in DOMAIN h.vx |->
               IF v \in SeqToSet(r.visited_vertexes)
               THEN [@[v] EXCEPT !.visited = FALSE] ELSE @[v]]],
      ftl |-> r.ftl, found |-> r.found]

\* The root call.  (visited_vertexes is a default argument shared by the root
\* calls; the vertexes left in it by earlier calls are released again, which
\* changes nothing, so the list starts empty here.)
check_new_scc(h, current_source, destination) ==
  LET a0 == [h |-> [h EXCEPT !.vx[current_source].visited = TRUE,
                             !.qblocks[h.vx[current_source].qblock].visited = TRUE],
             ftl |-> <<>>, visited_vertexes |-> <<current_source>>,
             found |-> FALSE]
      r == CheckNewSccVisit(a0, current_source, destination)
  IN [h |-> [r.h EXCEPT !.vx = [v \in DOMAIN h.vx |->
               IF v \in SeqToSet(r.visited_vertexes)
               THEN [@[v] EXCEPT !.visited = FALSE] ELSE @[v]]],
      ftl |-> r.ftl, found |-> r.found]

\* exists_causal_splitter(block1, block2, check_visited)
plausible_causal_splitters(h, block, the_other_block, check_visited) ==
  {cb \in {h.vx[h.edges[e].destination].qblock :
             e \in UNION {SeqToSet(h.vx[v].image) :
                            v \in SeqToSet(h.qblocks[block].vertexes)}} :
     /\ ~(check_visited /\ h.qblocks[cb].visited)
     /\ \/ QBlockRank(h, cb) < QBlockRank(h, block)
        \/ cb = the_other_block}

exists_causal_splitter(h, block1, block2, check_visited) ==
  plausible_causal_splitters(h, block1, block2, check_visited)
    # plausible_causal_splitters(h, block2, block1, check_visited)

\* merge_condition(block1, block2, check_visited)
merge_conditionNoInitialId(h, block1, block2, check_visited) ==
  /\ block1 # block2
  /\ QBlockRank(h, block1) = QBlockRank(h, block2)
  /\ ~(h.qblocks[block1].deteached \/ h.qblocks[block2].deteached)
  /\ ~exists_causal_splitter(h, block1, block2, check_visited)

merge_condition(h, block1, block2, check_visited) ==
  /\ QBlockInitialId(h, block1) = QBlockInitialId(h, block2)
  /\ block1 # block2
  /\ QBlockRank(h, block1) = QBlockRank(h, block2)
  /\ ~(h.qblocks[block1].deteached \/ h.qblocks[block2].deteached)
  /\ ~exists_causal_splitter(h, block1, block2, check_visited)

\* product(a, b) of itertools, as a sequence of pairs
Product(a, b) ==
  [k \in 1..(Len(a) * Len(b)) |->
     <<a[((k - 1) \div Len(b)) + 1], b[((k - 1) % Len(b)) + 1]>>]

\* recursive_merge without the loop over the couples of predecessors
recursive_mergeOnlyThePair(h, block1, block2) == QBlockMerge(h, block1, block2)

\* recursive_merge(block1, block2)
RECURSIVE recursive_merge(_, _, _)
recursive_merge(h, block1, block2) ==
  LET vertexes1 == h.qblocks[block1].vertexes
      vertexes2 == h.qblocks[block2].vertexes
      h1 == QBlockMerge(h, block1, block2)
      couples == FoldSeq(
        LAMBDA acc, p : acc \o Product(h.vx[p[1]].counterimage,
                                       h.vx[p[2]].counterimage),
        <<>>, Product(vertexes1, vertexes2))
      step(acc, ee) ==
        LET b1 == acc.h.vx[acc.h.edges[ee[1]].source].qblock
            b2 == acc.h.vx[acc.h.edges[ee[2]].source].qblock
        IN IF <<b1, b2>> \notin acc.verified \/ <<b2, b1>> \in acc.verified
           THEN [h |-> IF merge_condition(acc.h, b1, b2, FALSE)
                       THEN recursive_merge(acc.h, b1, b2) ELSE acc.h,
                 verified |-> acc.verified \cup {<<b1, b2>>}]
           ELSE acc
  IN FoldSeq(step, [h |-> h1, verified |-> {}], couples).h

\* merge_phase(ublock, vblock): the loop over vblock.vertexes sees the vertexes
\* that a merge appends to vblock.
RECURSIVE MergePhaseFrom(_, _, _, _)
MergePhaseFrom(h, ublock, vblock, i) ==
  IF i > Len(h.qblocks[vblock].vertexes) THEN h
  ELSE LET vertex == h.qblocks[vblock].vertexes[i]
           step(a, e) ==
             LET u1block == a.vx[a.edges[e].source].qblock
             IN IF merge_condition(a, ublock, u1block, FALSE)
                THEN recursive_merge(a, ublock, u1block) ELSE a
       IN MergePhaseFrom(FoldSeq(step, h, h.vx[vertex].counterimage),
                         ublock, vblock, i + 1)

merge_phase(h, ublock, vblock) == MergePhaseFrom(h, ublock, vblock, 1)

\* filter_deteached that filters nothing
filter_deteachedKeepAll(h, blocks) == blocks

\* filter_deteached(blocks)
filter_deteached(h, blocks) ==
  SelectSeq(blocks, LAMBDA b : ~h.qblocks[b].deteached)

\* merge_step(vertex, X, visited_vertexes, cant_merge_dict); acc holds the
\* heap and the three lists.
RECURSIVE merge_step(_, _)
merge_step(acc, vertex) ==
  LET a0 == [acc EXCEPT !.h.vx[vertex].visited = TRUE,
                        !.visited_vertexes = Append(@, vertex)]
      vb == a0.h.vx[vertex].qblock
      id == QBlockInitialId(a0.h, vb)
      a1 == IF a0.h.qblocks[vb].tried_merge THEN a0
            ELSE LET a2 ==
                       IF id \in DOMAIN a0.cant_merge_dict
                       THEN LET hits == SelectSeq(a0.cant_merge_dict[id],
                                  LAMBDA q : merge_condition(a0.h, vb, q, TRUE))
                            IN IF hits # <<>>
                               THEN [a0 EXCEPT !.h = recursive_merge(a0.h, Head(hits), vb)]
                               ELSE [a0 EXCEPT !.cant_merge_dict[id] = Append(@, vb),
                                               !.X = Append(@, vb)]
                       ELSE [a0 EXCEPT !.cant_merge_dict = (id :> <<vb>>) @@ @,
                                       !.X = Append(@, vb)]
                 IN [a2 EXCEPT !.h.qblocks[a2.h.vx[vertex].qblock].tried_merge = TRUE]
  IN FoldSeq(LAMBDA a, e :
               IF ~a.h.vx[a.h.edges[e].destination].visited
               THEN merge_step(a, a.h.edges[e].destination) ELSE a,
             a1, a1.h.vx[vertex].image)

\* preprocess_initial_partition(qblocks): the loop sees the blocks it appends
RECURSIVE PreprocessFrom(_, _, _)
PreprocessFrom(h, qblocks, i) ==
  IF i > Len(qblocks) THEN [h |-> h, qblocks |-> qblocks]
  ELSE LET vs == h.qblocks[qblocks[i]].vertexes
           leafs == SelectSeq(vs, LAMBDA v : Len(h.vx[v].image) = 0)
           non_leafs == SelectSeq(vs, LAMBDA v : Len(h.vx[v].image) # 0)
       IN IF Len(leafs) * Len(non_leafs) # 0
          THEN LET h1 == fast_mitosis(h, qblocks[i], leafs)
               IN PreprocessFrom(h1, Append(qblocks, Len(h1.qblocks)), i + 1)
          ELSE PreprocessFrom(h, qblocks, i + 1)

preprocess_initial_partition(h, qblocks) == PreprocessFrom(h, qblocks, 1)

\* _Vertex.restrict_to_allowed_subraph()
restrict_to_allowed_subraph(h, v) ==
  LET h0 == NewCount(h, v)
      count == Len(h0.counts)
      h1 == [h0 EXCEPT !.vx[v].original_img = h.vx[v].image,
                       !.vx[v].image = <<>>,
                       !.vx[v].original_count = None]
      h2 == FoldSeq(
              LAMBDA a, e :
                IF a.vx[a.edges[e].destination].allow_visit
                THEN [add_to_image(a, v, e) EXCEPT
                        !.vx[v].original_count =
                           IF @ = None THEN a.edges[e].count ELSE @,
                        !.edges[e].count = count,
                        !.counts[count].value = @ + 1]
                ELSE a,
              h1, h.vx[v].image)
  IN [h2 EXCEPT !.vx[v].original_counterimg = h.vx[v].counterimage,
                !.vx[v].counterimage =
                   SelectSeq(h.vx[v].counterimage,
                             LAMBDA e : h2.vx[h2.edges[e].source].allow_visit)]

\* _Vertex.back_to_original_graph()
back_to_original_graph(h, v) ==
  [h EXCEPT !.vx[v].image = h.vx[v].original_img,
            !.vx[v].counterimage = h.vx[v].original_counterimg,
            !.edges = [e \in 1..Len(h.edges) |->
                         IF e \in SeqToSet(h.vx[v].original_img)
                         THEN [@[e] EXCEPT !.count = h.vx[v].original_count]
                         ELSE @[e]],
            !.vx[v].original_count = None,
            !.vx[v].original_counterimg = <<>>,
            !.vx[v].original_img = <<>>]

\* the vertexes of the blocks of a list, block after block
VertexesOf(h, blocks) ==
  FoldSeq(LAMBDA acc, b : acc \o h.qblocks[b].vertexes, <<>>, blocks)

\* merge_split_phase(qpartition, finishing_time_list), stage by stage.
\* lines 350-365: the merge, in the order of finishing_time_list; X without
\* the deteached blocks; the flags visited and tried_merge cleared
MergeSplitMergedKeepVisited(m, qpartition) ==
  [h |-> [m.h EXCEPT
            !.qblocks = [b \in 1..Len(m.h.qblocks) |->
                           IF b \in SeqToSet(qpartition)
                           THEN [@[b] EXCEPT !.visited = FALSE, !.tried_merge = FALSE]
                           ELSE @[b]]],
   X |-> SelectSeq(m.X, LAMBDA b : ~m.h.qblocks[b].deteached)]

MergeSplitMerged(m, qpartition) ==
  [h |-> [m.h EXCEPT
            !.vx = [v \in DOMAIN m.h.vx |-> IF v \in SeqToSet(m.visited_vertexes)
                                         THEN [@[v] EXCEPT !.visited = FALSE] ELSE @[v]],
            !.qblocks = [b \in 1..Len(m.h.qblocks) |->
                           IF b \in SeqToSet(qpartition)
                           THEN [@[b] EXCEPT !.visited = FALSE, !.tried_merge = FALSE]
                           ELSE @[b]]],
   X |-> SelectSeq(m.X, LAMBDA b : ~m.h.qblocks[b].deteached)]

MergeSplitMerge(h, qpartition, finishing_time_list) ==
  MergeSplitMerged(
    FoldSeq(LAMBDA a, v : IF ~a.h.vx[v].visited THEN merge_step(a, v) ELSE a,
            [h |-> h, X |-> <<>>, visited_vertexes |-> <<>>, cant_merge_dict |-> <<>>],
            finishing_time_list),
    qpartition)

\* lines 371-389: the blocks of X in a new _XBlock, their vertexes allowed,
\* with their old block and a scaled label
MergeSplitAllow(h, X) ==
  FoldSeq(
    LAMBDA a, b :
      FoldSeq(LAMBDA aa, v :
                [aa EXCEPT !.h.vx[v].allow_visit = TRUE,
                           !.h.vx[v].old_qblock_id = aa.h.vx[v].qblock,
                           !.h.vx[v].label = aa.n,
                           !.n = @ + 1],
              [a EXCEPT !.h = [append_qblock(a.h, Len(a.h.xblocks), b)
                                 EXCEPT !.qblocks[b].visited = TRUE]],
              a.h.qblocks[b].vertexes),
    [h |-> NewXBlock(h), n |-> 0], X).h

\* lines 391-399: the partition without the blocks of X and the deteached
\* blocks, whose flag visited is cleared
MergeSplitRest(h, qpartition) ==
  [h |-> [h EXCEPT !.qblocks = [b \in 1..Len(h.qblocks) |->
                     IF b \in SeqToSet(qpartition)
                        /\ (h.qblocks[b].visited \/ h.qblocks[b].deteached)
                     THEN [@[b] EXCEPT !.visited = FALSE] ELSE @[b]]],
   new_qpartition |-> SelectSeq(qpartition, LAMBDA b :
                        ~(h.qblocks[b].visited \/ h.qblocks[b].deteached))]

\* lines 401-407: the restriction to the allowed subgraph, then PTA
MergeSplitPtaOn(pre) == pta_blocks(pre.h, pre.qblocks)

MergeSplitPta(h, X) ==
  MergeSplitPtaOn(
    preprocess_initial_partition(
      FoldSeq(restrict_to_allowed_subraph, h, VertexesOf(h, X)), X))

\* lines 410-417: the original graph and labels again
MergeSplitRestore(p) ==
  [h |-> FoldSeq(LAMBDA a, v :
                   [back_to_original_graph(a, v) EXCEPT
                      !.vx[v].allow_visit = FALSE, !.vx[v].label = v],
                 p.h, VertexesOf(p.h, p.blocks)),
   blocks |-> p.blocks]

\* lines 419-431: a ranked split for each block that is the result of a split
MergeSplitRankedStep(a, v, b, max_rank) ==
  IF ~a.h.qblocks[b].visited /\ a.h.vx[v].old_qblock_id # b
  THEN [ranked_split(a.h, a.partition, b, max_rank) EXCEPT
          !.h.qblocks[b].visited = TRUE]
         @@ [splitted_blocks |-> Append(a.splitted_blocks, b)]
  ELSE a

MergeSplitRanked(p, new_qpartition, max_rank) ==
  FoldSeq(LAMBDA a, v : MergeSplitRankedStep(a, v, a.h.vx[v].qblock, max_rank),
          [h |-> p.h, partition |-> new_qpartition \o p.blocks,
           splitted_blocks |-> <<>>],
          VertexesOf(p.h, p.blocks))

\* lines 433-440: old_qblock_id and the flag visited cleared
MergeSplitReset(s) ==
  [h |-> [s.h EXCEPT
            !.vx = [v \in DOMAIN s.h.vx |-> IF v \in SeqToSet(VertexesOf(s.h, s.partition))
                                           THEN [@[v] EXCEPT !.old_qblock_id = None] ELSE @[v]],
            !.qblocks = [b \in 1..Len(s.h.qblocks) |->
                           IF b \in SeqToSet(s.splitted_blocks)
                           THEN [@[b] EXCEPT !.visited = FALSE] ELSE @[b]]],
   partition |-> s.partition]

MergeSplitSplit(rest, X, max_rank) ==
  MergeSplitReset(
    MergeSplitRanked(MergeSplitRestore(MergeSplitPta(rest.h, X)),
                     rest.new_qpartition, max_rank))

MergeSplitFrom(m, qpartition, max_rank) ==
  MergeSplitSplit(MergeSplitRest(MergeSplitAllow(m.h, m.X), qpartition), m.X, max_rank)

\* the heap and the new partition
merge_split_phase(h, qpartition, finishing_time_list) ==
  MergeSplitFrom(
    MergeSplitMerge(h, qpartition, finishing_time_list), qpartition,
    MaxOf({QBlockRank(h, b) : b \in SeqToSet(qpartition)} \cup {NegInf}))

\* propagate_nwf(scc, scc_finishing_time)
\* lines 461-467: an SCC of the image, whose wf was read as w
PropagateNwfImage(a, scc, image_scc, w) ==
  [h |-> IF w.wf THEN w.h
         ELSE [w.h EXCEPT !.sccs[scc].has_wf = TRUE, !.sccs[scc].wf = FALSE],
   mx |-> IF (IF w.wf THEN PlusOne(w.h.sccs[image_scc].rank)
              ELSE w.h.sccs[image_scc].rank) > a.mx
          THEN IF w.wf THEN PlusOne(w.h.sccs[image_scc].rank)
               ELSE w.h.sccs[image_scc].rank
          ELSE a.mx]

PropagateNwfSetRank(r, scc) == [r.h EXCEPT !.sccs[scc].rank = r.mx]

\* lines 452-468: the rank of the SCC, from its image
PropagateNwfRank(h, scc) ==
  IF h.sccs[scc].image = {}
  THEN [h EXCEPT !.sccs[scc].rank = IF h.sccs[scc].vertexes = {} THEN 0 ELSE NegInf]
  ELSE PropagateNwfSetRank(
         FoldSeq(LAMBDA a, t : PropagateNwfImage(a, scc, t, SccWf(a.h, t)),
                 [h |-> h, mx |-> NegInf], SetToSeq(h.sccs[scc].image)),
         scc)

RECURSIVE propagate_nwf(_, _, _)
\* lines 472-474: the SCCs of the counterimage, in the order of the list
PropagateNwfUp(h, scc, scc_finishing_time) ==
  FoldSeq(LAMBDA a, sf :
            IF a.sccs[sf].label \in {a.sccs[t].label : t \in a.sccs[scc].counterimage}
            THEN propagate_nwf(a, sf, scc_finishing_time)
            ELSE a,
          h, scc_finishing_time)

propagate_nwf(h, scc, scc_finishing_time) ==
  IF h.sccs[scc].visited THEN h
  ELSE PropagateNwfUp(
         PropagateNwfRank(
           compute_counterimage(
             compute_image([h EXCEPT !.sccs[scc].visited = TRUE], scc), scc),
           scc),
         scc, scc_finishing_time)

\* propagate_wf(vertex, well_founded_topological, scc_finishing_time)
\* lines 495-498: an edge of the image, the wf of its destination read as w
PropagateWfImage(aa, destination, w) ==
  [h |-> w.h,
   mx |-> IF w.wf /\ PlusOne(VertexRank(w.h, destination)) > aa.mx
          THEN PlusOne(VertexRank(w.h, destination)) ELSE aa.mx]

PropagateWfSetRank(r, vx) == SetVertexRank(r.h, vx, r.mx)

\* lines 502-504: an edge of the counterimage, the wf of its source read as w
PropagateWfCounterimage(source, w, scc_finishing_time) ==
  IF ~w.wf THEN propagate_nwf(w.h, w.h.vx[source].scc, scc_finishing_time)
  ELSE w.h

PropagateWfUp(h, well_founded_topological, scc_finishing_time) ==
  FoldSeq(
    LAMBDA a, vx :
      FoldSeq(LAMBDA aa, e :
                PropagateWfCounterimage(aa.edges[e].source,
                                        VertexWf(aa, aa.edges[e].source),
                                        scc_finishing_time),
              a, a.vx[vx].counterimage),
    h, well_founded_topological)

propagate_wf(h, vertex, well_founded_topological, scc_finishing_time) ==
  PropagateWfUp(
    FoldSeq(LAMBDA a, vx :
              PropagateWfSetRank(
                FoldSeq(LAMBDA aa, e :
                          PropagateWfImage(aa, aa.h.edges[e].destination,
                                           VertexWf(aa.h, aa.h.edges[e].destination)),
                        [h |-> a, mx |-> VertexRank(a, vx)], a.vx[vx].image),
                vx),
            h, well_founded_topological),
    well_founded_topological, scc_finishing_time)

\* build_well_founded_topological_list(old_rscp, source, max_rank): the heap
\* after the reads of wf and the list; IndexError when a block has no bucket.
build_well_founded_topological_list(h, old_rscp, source, max_rank) ==
  LET source_position == IF VertexRank(h, source) = NegInf THEN 0
                         ELSE VertexRank(h, source) + 1
      size == IF max_rank = NegInf THEN 1 ELSE max_rank + 2 - source_position
      idxOf(b) == IF QBlockRank(h, b) = NegInf THEN 0
                  ELSE QBlockRank(h, b) + 1 - source_position
      used == SelectSeq(old_rscp, LAMBDA b :
                QBlockRank(h, b) = NegInf \/ QBlockRank(h, b) >= VertexRank(h, source))
      r == FoldSeq(
             LAMBDA a, b :
               FoldSeq(LAMBDA aa, vx :
                         LET w == VertexWf(aa.h, vx)
                         IN [h |-> w.h,
                             buckets |-> IF w.wf /\ idxOf(b) + 1 \in 1..size
                                THEN [aa.buckets EXCEPT ![idxOf(b) + 1] = Append(@, vx)]
                                ELSE aa.buckets],
                       a, a.h.qblocks[b].vertexes),
             [h |-> h, buckets |-> [i \in 1..(IF size > 0 THEN size ELSE 0) |-> <<>>]],
             used)
  IN IF \E i \in 1..Len(used) : idxOf(used[i]) + 1 \notin 1..size
     THEN [h |-> [h EXCEPT !.err = "IndexError"], list |-> <<>>]
     ELSE [h |-> r.h,
           list |-> FoldSeq(LAMBDA acc, l : acc \o l, <<>>, r.buckets)]

\* ---- update_rscp(old_rscp, new_edge, vertexes), in five steps.  A call is
\* a record of the heap h, the position pc and the local variables.  new_edge
\* is [kind, a, b]: two integers (kind "int"), two _Vertex (kind "vertex") or
\* anything else (kind "other").  An exception leaves the heap as it is at the
\* raise, in pc "raised".
Raise(c, e) == [c EXCEPT !.pc = "raised", !.h.err = e]

\* lines 578-581: the SCCs of the vertexes, by label
SccsOfVertexes(h) ==
  FoldSeq(LAMBDA acc, v :
            IF \E i \in 1..Len(acc) :
                 h.sccs[acc[i]].label = h.sccs[h.vx[v].scc].label
            THEN [i \in 1..Len(acc) |->
                    IF h.sccs[acc[i]].label = h.sccs[h.vx[v].scc].label
                    THEN h.vx[v].scc ELSE acc[i]]
            ELSE Append(acc, h.vx[v].scc),
          <<>>, SetToSeq(DOMAIN h.vx))

\* lines 588-590: the wf flag of the source; dwf is the wf read for v
UpdateEnterWf(c, dwf) ==
  [c EXCEPT !.h = IF ~dwf.wf THEN SetVertexWf(dwf.h, c.source_vertex, FALSE)
                  ELSE dwf.h]

\* lines 586: scc_finishing_time
UpdateEnterOrder(c, sccs) ==
  UpdateEnterWf([c EXCEPT !.scc_finishing_time = scc_finishing_time_list(c.h, sccs)],
                VertexWf(c.h, c.destination_vertex))

\* lines 583-584: compute_image for each SCC
UpdateEnterSccs(c, sccs) ==
  UpdateEnterOrder([c EXCEPT !.h = FoldSeq(compute_image, c.h, sccs)], sccs)

\* lines 574-576: w is the result of build_well_founded_topological_list
UpdateEnterList(c, w) ==
  IF w.h.err # "" THEN Raise(c, w.h.err)
  ELSE UpdateEnterSccs([c EXCEPT !.h = w.h, !.well_founded_topological = w.list],
                       SccsOfVertexes(w.h))

\* lines 567-572: s and d are the vertexes found for the two labels
UpdateEnterFoundSourceFirst(c, s, d) ==
  IF c.new_edge.kind = "int" /\ ~(s.found /\ d.found)
  THEN Raise([c EXCEPT !.h = IF s.found THEN SetVertexWf(c.h, s.vertex, FALSE)
                             ELSE c.h], "Exception")
  ELSE IF c.new_edge.kind = "other" THEN Raise(c, "ValueError")
  ELSE IF c.new_edge.kind = "vertex" THEN Raise(c, "TypeError")
  ELSE UpdateEnterList(
         [c EXCEPT !.source_vertex = s.vertex, !.destination_vertex = d.vertex],
         build_well_founded_topological_list(c.h, c.old_rscp, c.new_edge.a,
                                             c.max_rank))

UpdateEnterFound(c, s, d) ==
  IF c.new_edge.kind = "int" /\ ~(s.found /\ d.found) THEN Raise(c, "Exception")
  ELSE IF c.new_edge.kind = "other" THEN Raise(c, "ValueError")
  \* vertexes[new_edge[0]] with a _Vertex as the index
  ELSE IF c.new_edge.kind = "vertex" THEN Raise(c, "TypeError")
  ELSE UpdateEnterList(
         [c EXCEPT !.source_vertex = s.vertex, !.destination_vertex = d.vertex],
         build_well_founded_topological_list(c.h, c.old_rscp, c.new_edge.a,
                                             c.max_rank))

\* lines 565-590: the vertexes of the edge, the topological list of the
\* well-founded vertexes, the images of the SCCs, the wf flag of the source
UpdateEnter(h, old_rscp, new_edge) ==
  UpdateEnterFound(
    [h |-> h, pc |-> "entered", old_rscp |-> old_rscp, new_edge |-> new_edge,
     max_rank |-> MaxOf({QBlockRank(h, b) : b \in SeqToSet(old_rscp)}),
     source_vertex |-> None, destination_vertex |-> None,
     well_founded_topological |-> <<>>, scc_finishing_time |-> <<>>,
     qpartition |-> <<>>, finishing_time_list |-> <<>>, result |-> <<>>],
    FindVertex(h, old_rscp, new_edge.a), FindVertex(h, old_rscp, new_edge.b))

\* lines 594-602: nothing to do when [u] => [v] already, else the new edge
\* and the ranked split
UpdateRelation(c) ==
  IF check_old_blocks_relation(c.h, c.source_vertex, c.destination_vertex)
  THEN [c EXCEPT !.pc = "returned", !.result = c.old_rscp]
  ELSE LET h1 == add_edge(c.h, c.source_vertex, c.destination_vertex)
           r == ranked_split(h1, c.old_rscp, h1.vx[c.destination_vertex].qblock,
                             c.max_rank)
       IN IF h1.err # "" THEN Raise(c, h1.err)
          ELSE [c EXCEPT !.h = r.h, !.qpartition = r.partition, !.pc = "dispatch"]

\* lines 604-666 but the merges: the ranks and the SCCs
ToMerge(c, h) == [c EXCEPT !.h = h, !.pc = "merge"]

\* lines 626-639: a new SCC; k is the heap with the new SCCs, after the first
UpdateNewScc(c, k, first, ftl) ==
  [c EXCEPT !.h = k, !.finishing_time_list = ftl, !.pc = "merge_split",
            !.scc_finishing_time = [i \in 1..(Len(k.sccs) - first + 1) |-> first + i - 1]]

UpdateNewSccImages(c) ==
  [c EXCEPT !.h = FoldSeq(LAMBDA a, s : compute_counterimage(compute_image(a, s), s),
                          c.h, c.scc_finishing_time)]

UpdateNewSccOrder(c) ==
  [c EXCEPT !.scc_finishing_time = scc_finishing_time_list(c.h, c.scc_finishing_time)]

UpdateNewSccRanks(c) ==
  [c EXCEPT !.h = propagate_nwf(c.h, c.h.vx[c.source_vertex].scc, c.scc_finishing_time)]

\* lines 641-666: no new SCC; uwf and vwf are the flags read
UpdateNoNewScc(c, h, uwf, vwf, ru, rv) ==
  IF uwf
  THEN IF vwf
       THEN ToMerge(c, propagate_wf(SetVertexRank(h, c.source_vertex, PlusOne(rv)),
                                    c.source_vertex, c.well_founded_topological,
                                    c.scc_finishing_time))
       ELSE IF ru < rv
            THEN ToMerge(c, propagate_nwf(SetVertexRank(h, c.source_vertex, rv),
                                          h.vx[c.source_vertex].scc,
                                          c.scc_finishing_time))
            ELSE ToMerge(c, h)
  ELSE IF ru < rv
       \* propagate_nwf(source_vertex, ...): a _Vertex, which is not visited
       \* and has no compute_image
       THEN Raise([c EXCEPT !.h = [SetVertexRank(h, c.source_vertex, rv) EXCEPT
                                     !.vx[c.source_vertex].visited = TRUE]],
                  "AttributeError")
       ELSE ToMerge(c, h)

UpdateNoNewSccRead(c, x1, ru, rv) ==
  IF x1.wf
  THEN UpdateNoNewScc(c, VertexWf(x1.h, c.destination_vertex).h, TRUE,
                      VertexWf(x1.h, c.destination_vertex).wf, ru, rv)
  ELSE UpdateNoNewScc(c, x1.h, FALSE, FALSE, ru, rv)

\* lines 621-630: check_new_scc
UpdateCheckNewScc(c, n, ru, rv) ==
  IF n.found
  THEN UpdateNewSccRanks(UpdateNewSccOrder(UpdateNewSccImages(
         UpdateNewScc(c, kosaraju(n.h, Reach(HeapEdges(n.h), c.source_vertex)),
                      Len(n.h.sccs) + 1, n.ftl))))
  ELSE UpdateNoNewSccRead(c, VertexWf(n.h, c.source_vertex), ru, rv)

\* lines 604-620; nwf_wf: u isn't well founded, v is well founded
UpdateDispatch(c, h, nwf_wf, ru, rv) ==
  IF nwf_wf
  THEN IF PlusOne(rv) > ru
       THEN ToMerge(c, propagate_nwf(SetVertexRank(h, c.source_vertex, PlusOne(rv)),
                                     h.vx[c.source_vertex].scc, c.scc_finishing_time))
       ELSE ToMerge(c, h)
  ELSE IF ru > rv THEN ToMerge(c, h)
  ELSE UpdateCheckNewScc(c, check_new_scc(h, c.source_vertex, c.destination_vertex),
                         ru, rv)

UpdateRanksRead(c, w) ==
  UpdateDispatch(c, w.h, w.wf, VertexRank(w.h, c.source_vertex),
                 VertexRank(w.h, c.destination_vertex))

UpdateRanksNwf(c, w1) ==
  IF w1.wf THEN UpdateRanksRead(c, [h |-> w1.h, wf |-> FALSE])
  ELSE UpdateRanksRead(c, VertexWf(w1.h, c.destination_vertex))

UpdateRanks(c) == UpdateRanksNwf(c, VertexWf(c.h, c.source_vertex))

\* the merge without the return: the call stays before its merge_phase
UpdateMergeNoReturn(c) ==
  [c EXCEPT !.h = merge_phase(c.h, c.h.vx[c.source_vertex].qblock,
                              c.h.vx[c.destination_vertex].qblock)]

\* merge_phase and filter_deteached, before each return of lines 616-671
UpdateMerge(c) ==
  LET h1 == merge_phase(c.h, c.h.vx[c.source_vertex].qblock,
                        c.h.vx[c.destination_vertex].qblock)
  IN [c EXCEPT !.h = h1, !.result = filter_deteached(h1, c.qpartition),
               !.pc = "returned"]

\* line 639: return merge_split_phase(qpartition, finishing_time_list)
UpdateMergeSplit(c) ==
  LET r == merge_split_phase(c.h, c.qpartition, c.finishing_time_list)
  IN [c EXCEPT !.h = r.h, !.result = r.partition, !.pc = "returned"]

UpdateStep(c) ==
  CASE c.pc = "entered" -> UpdateRelation(c)
    [] c.pc = "dispatch" -> UpdateRanks(c)
    [] c.pc = "merge" -> UpdateMerge(c)
    [] c.pc = "merge_split" -> UpdateMergeSplit(c)
    [] OTHER -> c

RECURSIVE UpdateRun(_)
UpdateRun(c) ==
  IF c.pc \in {"returned", "raised"} THEN c ELSE UpdateRun(UpdateStep(c))

update_rscp(h, old_rscp, new_edge) == UpdateRun(UpdateEnter(h, old_rscp, new_edge))

\* =========================================================================
\* State
\* =========================================================================
VARIABLES
  graph,          \* the input graph: a set of pairs <<source, destination>>
  \* --- the run of fba(graph)
  fpc,            \* start, collapse_inf, ranks, emit, done
  fvx, fblocks, fpartition, fcollapse_map, ftodo, fscaled, fidx, frscp,
  \* --- the objects of SAHA (the heap)
  hvx, hedges, hcounts, hqblocks, hxblocks, hsccs, herr, hmerges,
  \* --- the preparation of the SCCs
  prepared,       \* the SCCs whose compute_image has run
  \* --- the calls of update_rscp
  partition,      \* the list of blocks that the caller holds
  call,           \* the position and the local variables of the call
  updates,        \* the number of calls made
  pre             \* the heap and the partition when the last call was made

fbaVars == <<fpc, fvx, fblocks, fpartition, fcollapse_map, ftodo, fscaled, fidx, frscp>>
heapVars == <<hvx, hedges, hcounts, hqblocks, hxblocks, hsccs, herr, hmerges>>
sahaVars == <<partition, call, updates, pre>>
vars == <<graph, fbaVars, heapVars, prepared, sahaVars>>

Heap ==
  [vx |-> hvx, edges |-> hedges, counts |-> hcounts, qblocks |-> hqblocks,
   xblocks |-> hxblocks, sccs |-> hsccs, err |-> herr, merges |-> hmerges]

SetHeap(h) ==
  /\ hvx' = h.vx
  /\ hedges' = h.edges
  /\ hcounts' = h.counts
  /\ hqblocks' = h.qblocks
  /\ hxblocks' = h.xblocks
  /\ hsccs' = h.sccs
  /\ herr' = h.err
  /\ hmerges' = h.merges

HeapIs(h) ==
  /\ hvx = h.vx /\ hedges = h.edges /\ hcounts = h.counts /\ hqblocks = h.qblocks
  /\ hxblocks = h.xblocks /\ hsccs = h.sccs /\ herr = h.err /\ hmerges = h.merges

HeapIdle ==
  /\ hvx = <<>> /\ hedges = <<>> /\ hcounts = <<>> /\ hqblocks = <<>>
  /\ hxblocks = <<>> /\ hsccs = <<>> /\ herr = "" /\ hmerges = {}
  /\ prepared = {}

\* no call of update_rscp yet
NoCall ==
  [pc |-> "idle", old_rscp |-> <<>>, new_edge |-> [kind |-> "int", a |-> 0, b |-> 0],
   max_rank |-> NegInf, source_vertex |-> None, destination_vertex |-> None,
   well_founded_topological |-> <<>>, scc_finishing_time |-> <<>>,
   qpartition |-> <<>>, finishing_time_list |-> <<>>, result |-> <<>>]

SahaIdle ==
  /\ partition = <<>> /\ call = NoCall /\ updates = 0
  /\ pre = [h |-> Heap, rscp |-> <<>>]

FbaState ==
  [vx |-> fvx, blocks |-> fblocks, partition |-> fpartition,
   collapse_map |-> fcollapse_map, todo |-> ftodo, scaled |-> fscaled,
   idx |-> fidx, rscp |-> frscp, pc |-> fpc]

SetFbaState(st) ==
  /\ fvx' = st.vx
  /\ fblocks' = st.blocks
  /\ fpartition' = st.partition
  /\ fcollapse_map' = st.collapse_map
  /\ ftodo' = st.todo
  /\ fscaled' = st.scaled
  /\ fidx' = st.idx
  /\ frscp' = st.rscp
  /\ fpc' = st.pc

FbaIdle ==
  /\ fpc = "start"
  /\ fvx = <<>> /\ fblocks = <<>> /\ fpartition = <<>> /\ fcollapse_map = <<>>
  /\ ftodo = <<>> /\ fscaled = <<>> /\ fidx = 0 /\ frscp = <<>>

\* ------------------------------------------------------------ FBA actions
FbaPrepare ==
  /\ fpc = "start"
  /\ SetFbaState(FbaPrepareStep(graph))
  /\ UNCHANGED <<graph, heapVars, prepared, sahaVars>>

FbaCollapseInf ==
  /\ fpc = "collapse_inf"
  /\ SetFbaState(FbaCollapseInfStep(FbaState))
  /\ UNCHANGED <<graph, heapVars, prepared, sahaVars>>

FbaPta ==
  /\ fpc = "ranks" /\ ftodo = <<>>
  /\ SetFbaState(FbaPtaStep(FbaState))
  /\ UNCHANGED <<graph, heapVars, prepared, sahaVars>>

FbaBlock ==
  /\ fpc = "ranks" /\ ftodo # <<>>
  /\ SetFbaState(FbaBlockStep(FbaState))
  /\ UNCHANGED <<graph, heapVars, prepared, sahaVars>>

FbaEmit ==
  /\ fpc = "emit"
  /\ SetFbaState(FbaEmitStep(FbaState))
  /\ UNCHANGED <<graph, heapVars, prepared, sahaVars>>

InitFBA == graph \in SUBSET (V \X V) /\ FbaIdle /\ HeapIdle /\ SahaIdle
NextFBA == FbaPrepare \/ FbaCollapseInf \/ FbaPta \/ FbaBlock \/ FbaEmit
SpecFBA == InitFBA /\ [][NextFBA]_vars

\* =========================================================================
\* Claims on FBA
\* =========================================================================

\* C1 (soundness of FBA): when fba has returned, every two vertices of the same
\* output tuple are bisimilar in the input graph.
C1_FbaSound ==
  fpc = "done" =>
    \A i \in 1..Len(frscp) : \A j, k \in 1..Len(frscp[i]) :
      <<frscp[i][j], frscp[i][k]>> \in Bisim(graph)

\* a run of fba has returned a tuple with two vertices or more
C1_Witness ==
  fpc = "done" /\ \E i \in 1..Len(frscp) : Len(frscp[i]) >= 2

\* C2 (maximality of FBA): when fba has returned, every two vertices that are
\* bisimilar in the input graph are in the same output tuple.
C2_FbaMaximal ==
  fpc = "done" =>
    \A p \in Bisim(graph) :
      \E i \in 1..Len(frscp) : {p[1], p[2]} \subseteq SeqToSet(frscp[i])

\* fba has returned, and two different vertices that are bisimilar have a
\* higher rank than some other vertex (they went through split_upper_ranks)
C2_Witness ==
  /\ fpc = "done"
  /\ \E p \in Bisim(graph) :
       /\ p[1] # p[2]
       /\ \E w \in V : RankDef(graph, w) < RankDef(graph, p[1])

\* C4 (the output is a partition): when fba has returned, every label of [0, n)
\* is in exactly one tuple, exactly once, and no tuple is empty.
C4_FbaPartition ==
  fpc = "done" =>
    /\ \A v \in V :
         Cardinality({<<i, j>> \in (1..Len(frscp)) \X (1..NumVertices) :
                        j <= Len(frscp[i]) /\ frscp[i][j] = v}) = 1
    /\ \A i \in 1..Len(frscp) : Len(frscp[i]) > 0

\* fba has returned and some vertex was absorbed by a survivor
C4_Witness ==
  fpc = "done" /\ \E l \in DOMAIN fcollapse_map : Len(fcollapse_map[l]) > 0

\* =========================================================================
\* The well-foundedness of the SCCs: after kosaraju, compute_image runs on
\* every SCC (as in update_rscp), then the wf property is read, in any order.
\* =========================================================================
InitWF ==
  /\ graph \in SUBSET (V \X V)
  /\ FbaIdle
  /\ HeapIs(kosaraju(BuildVertexes(graph, [v \in V |-> 0]), V))
  /\ prepared = {}
  /\ SahaIdle

WfComputeImage(s) ==
  /\ s \notin prepared
  /\ SetHeap(compute_image(Heap, s))
  /\ prepared' = prepared \cup {s}
  /\ UNCHANGED <<graph, fbaVars, sahaVars>>

WfRead(s) ==
  /\ prepared = 1..Len(hsccs)
  /\ ~hsccs[s].has_wf
  /\ SetHeap(SccWf(Heap, s).h)
  /\ UNCHANGED <<graph, fbaVars, prepared, sahaVars>>

NextWF ==
  \/ \E s \in 1..Len(hsccs) : WfComputeImage(s)
  \/ \E s \in 1..Len(hsccs) : WfRead(s)
SpecWF == InitWF /\ [][NextWF]_vars

\* The inductive definition of well-foundedness of the claim.
RECURSIVE WfDef(_, _)
WfDef(G, S) ==
  /\ Cardinality(S) = 1
  /\ \A v \in S : <<v, v>> \notin G
  /\ \A T \in SccSucc(G, S) : WfDef(G, T)

\* C6 (well-foundedness): once the graph is prepared, the wf read for a vertex,
\* now or kept from an earlier read, is true iff its SCC is a singleton with no
\* self-loop whose successor SCCs are all well-founded, i.e. iff the vertex
\* reaches no cycle; in whatever order the SCCs are read.
C6_WfCorrect ==
  prepared = 1..Len(hsccs) /\ Len(hsccs) > 0 =>
    \A v \in V :
      /\ VertexWf(Heap, v).wf = WfDef(graph, SccOf(graph, v))
      /\ VertexWf(Heap, v).wf = CannotReachCycle(graph, v)
      /\ hsccs[hvx[v].scc].has_wf =>
           hsccs[hvx[v].scc].wf = WfDef(graph, SccOf(graph, v))

\* an SCC that is a singleton with no self-loop was read and found
\* non-well-founded (because of a successor), while another was not read yet
C6_Witness ==
  /\ prepared = 1..Len(hsccs)
  /\ \E v \in V :
       /\ SccOf(graph, v) = {v} /\ <<v, v>> \notin graph
       /\ hsccs[hvx[v].scc].has_wf /\ ~hsccs[hvx[v].scc].wf
  /\ \E s \in 1..Len(hsccs) : ~hsccs[s].has_wf
\* =========================================================================
\* SAHA: calls of update_rscp on the RSCP of a graph.
\* =========================================================================
MaxUpdates == 2

\* The initial partitions: a vertex is with an earlier vertex or opens a block.
InitialPartitions ==
  {f \in [V -> 0..(NumVertices - 1)] :
     \A v \in V : f[v] = 0 \/ \E w \in 0..(v - 1) : f[w] = f[v] - 1}

\* The new edges a caller may pass: two labels (NumVertices is the label of no
\* vertex), two _Vertex objects, or something else.
NewEdges ==
  [kind : {"int"}, a : 0..NumVertices, b : 0..NumVertices]
    \cup [kind : {"vertex"}, a : V, b : V]
    \cup [kind : {"other"}, a : {0}, b : {0}]

\* the call in progress, with the heap
Call == [call EXCEPT !.pc = call.pc] @@ [h |-> Heap]

SetCall(c) ==
  /\ SetHeap(c.h)
  /\ call' = [f \in DOMAIN NoCall |-> c[f]]
  /\ partition' = IF c.pc = "returned" THEN c.result ELSE partition

SahaStart(r) == HeapIs(r.h) /\ partition = r.rscp /\ pre = r

InitSAHA ==
  /\ graph \in SUBSET (V \X V)
  /\ FbaIdle
  /\ prepared = {}
  /\ \E init \in InitialPartitions : SahaStart(InitialRscp(graph, init))
  /\ call = NoCall
  /\ updates = 0

SahaEnter(new_edge) ==
  /\ call.pc \in {"idle", "returned"}
  /\ updates < MaxUpdates
  /\ SetCall(UpdateEnter(Heap, partition, new_edge))
  /\ updates' = updates + 1
  /\ pre' = [h |-> Heap, rscp |-> partition]
  /\ UNCHANGED <<graph, fbaVars, prepared>>

SahaRelation ==
  /\ call.pc = "entered"
  /\ SetCall(UpdateRelation(Call))
  /\ UNCHANGED <<graph, fbaVars, prepared, updates, pre>>

SahaRanks ==
  /\ call.pc = "dispatch"
  /\ SetCall(UpdateRanks(Call))
  /\ UNCHANGED <<graph, fbaVars, prepared, updates, pre>>

SahaMerge ==
  /\ call.pc = "merge"
  /\ SetCall(UpdateMerge(Call))
  /\ UNCHANGED <<graph, fbaVars, prepared, updates, pre>>

SahaMergeSplit ==
  /\ call.pc = "merge_split"
  /\ SetCall(UpdateMergeSplit(Call))
  /\ UNCHANGED <<graph, fbaVars, prepared, updates, pre>>

NextSAHA ==
  \/ \E new_edge \in NewEdges : SahaEnter(new_edge)
  \/ SahaRelation
  \/ SahaRanks
  \/ SahaMerge
  \/ SahaMergeSplit
SpecSAHA == InitSAHA /\ [][NextSAHA]_vars

\* the partition as a set of sets of vertexes
BlocksAsSets(h, blocks) == {SeqToSet(h.qblocks[blocks[i]].vertexes) : i \in 1..Len(blocks)}

\* the call has ended, with a result or with an exception
Completed == call.pc \in {"returned", "raised"}

\* the labels of the vertexes of the blocks of a partition
LabelsOf(h, blocks) == {h.vx[v].label : v \in SeqToSet(VertexesOf(h, blocks))}

\* the new edge is two labels of vertexes of the partition of the call
ValidIntEdge ==
  /\ call.new_edge.kind = "int"
  /\ call.new_edge.a \in LabelsOf(pre.h, pre.rscp)
  /\ call.new_edge.b \in LabelsOf(pre.h, pre.rscp)

\* no initial partition: one initial_partition_block_id for all the vertexes
NoInitialPartition ==
  \A x, y \in V : hvx[x].initial_partition_block_id = hvx[y].initial_partition_block_id

\* the blocks of a partition of the heap h are the RSCP of its graph
IsRscp(h, blocks) == BlocksAsSets(h, blocks) = AsSetOfSets(fba(HeapEdges(h)))

\* C3 (FBA/SAHA agreement): a call of update_rscp on the RSCP of a graph G,
\* with a new edge (u, v) between vertexes of G, returns, as a set of sets of
\* vertexes, the partition that fba computes on G with the edge (u, v).
C3_SahaAgreesWithFba ==
  (Completed /\ ValidIntEdge /\ NoInitialPartition /\ IsRscp(pre.h, pre.rscp)) =>
    /\ call.pc = "returned"
    /\ BlocksAsSets(Heap, call.result)
         = AsSetOfSets(fba(HeapEdges(pre.h)
                           \cup {<<call.new_edge.a, call.new_edge.b>>}))

\* C5 (initial-partition respect): in every state of a call of update_rscp no
\* block holds two vertexes whose initial_partition_block_id differ, and every
\* merge made joined two blocks of the same initial_partition_block_id.
C5_InitialPartitionRespected ==
  /\ \A b \in 1..Len(hqblocks) :
       \A x, y \in SeqToSet(hqblocks[b].vertexes) :
         hvx[x].initial_partition_block_id = hvx[y].initial_partition_block_id
  /\ \A m \in hmerges : m[1] = m[2]

\* a call that went through merge_split_phase has returned, blocks were
\* merged, and the result has two blocks of the same rank with no causal
\* splitter, which only their initial ids keep apart
C5_Witness ==
  /\ call.pc = "returned"
  /\ call.finishing_time_list # <<>>
  /\ hmerges # {}
  /\ \E i, j \in 1..Len(call.result) :
       /\ i # j
       /\ QBlockInitialId(Heap, call.result[i]) # QBlockInitialId(Heap, call.result[j])
       /\ merge_conditionNoInitialId(Heap, call.result[i], call.result[j], FALSE)

\* [u] => [v] in the partition of the call: a vertex of the block of u has an
\* edge to a vertex of the block of v
ReachedBefore ==
  \E x \in V, y \in V :
    /\ pre.h.vx[x].qblock = pre.h.vx[call.new_edge.a].qblock
    /\ pre.h.vx[y].qblock = pre.h.vx[call.new_edge.b].qblock
    /\ <<x, y>> \in HeapEdges(pre.h)

\* the blocks, the edges, the images, the ranks and the wf of the heap are
\* those of the heap h
SameGraphAndBlocks(h) ==
  /\ Len(hqblocks) = Len(h.qblocks)
  /\ \A b \in 1..Len(hqblocks) : hqblocks[b].vertexes = h.qblocks[b].vertexes
  /\ hedges = h.edges
  /\ \A v \in V : /\ hvx[v].image = h.vx[v].image
                  /\ hvx[v].counterimage = h.vx[v].counterimage
                  /\ hvx[v].qblock = h.vx[v].qblock
                  /\ VertexRank(Heap, v) = VertexRank(h, v)
                  /\ VertexWf(Heap, v).wf = VertexWf(h, v).wf

\* C7 (no-op): when [u] already reaches [v] in the old partition, update_rscp
\* returns old_rscp unchanged: the same blocks with the same members, no edge
\* added to an image or a counterimage, no rank and no wf changed.
C7_NoOpLeavesAllUnchanged ==
  (Completed /\ ValidIntEdge /\ ReachedBefore) =>
    /\ call.pc = "returned"
    /\ call.result = pre.rscp
    /\ SameGraphAndBlocks(pre.h)

\* the new edge is neither two integers nor two _Vertex, or has an integer
\* that is the label of no vertex of the partition
BadInput ==
  \/ call.new_edge.kind = "other"
  \/ /\ call.new_edge.kind = "int"
     /\ \/ call.new_edge.a \notin LabelsOf(pre.h, pre.rscp)
        \/ call.new_edge.b \notin LabelsOf(pre.h, pre.rscp)

\* C8 (input errors): a call of update_rscp with such an input fails with an
\* error and leaves the graph and the partition as they were: no edge, block,
\* flag, rank or wf changed.
C8_InputErrorsLeaveStateUnchanged ==
  (call.pc # "idle" /\ BadInput) =>
    /\ call.pc = "raised"
    /\ herr \in {"Exception", "ValueError"}
    /\ [Heap EXCEPT !.err = ""] = pre.h
    /\ partition = pre.rscp

\* a call has failed for a label of no vertex, the other label being that of
\* a well-founded vertex of a graph with edges
C8_Witness ==
  /\ call.pc = "raised"
  /\ call.new_edge.kind = "int"
  /\ call.new_edge.a \in V
  /\ call.new_edge.b = NumVertices
  /\ hsccs[hvx[call.new_edge.a].scc].wf
  /\ Len(hedges) > 0

\* the result of the call with the labels of the two _Vertex of the new edge
WithLabels == update_rscp(pre.h, pre.rscp, [call.new_edge EXCEPT !.kind = "int"])

SameAsWithLabels(r) ==
  r.pc = "returned" => BlocksAsSets(Heap, call.result) = BlocksAsSets(r.h, r.result)

\* C9 (Vertex handles): a call of update_rscp with the two _Vertex of an edge
\* completes, and returns the partition that the call with their two labels
\* returns.
C9_VertexPairAsLabels ==
  (Completed /\ call.new_edge.kind = "vertex") =>
    /\ call.pc = "returned"
    /\ SameAsWithLabels(WithLabels)

\* the _XBlock of the destination of an edge
XBlockOf(h, e) == h.qblocks[h.vx[h.edges[e].destination].qblock].xblock

\* C10 (count invariant): after a top-level operation, for every vertex u and
\* every _XBlock S, the edges of the image of u whose destination is in S
\* share one _Count, whose value is the number of these edges.
C10_CountInvariant ==
  call.pc \in {"idle", "returned"} =>
    \A u \in V : \A S \in 1..Len(hxblocks) :
      \A e \in SeqToSet(hvx[u].image) :
        XBlockOf(Heap, e) = S =>
          /\ hedges[e].count # None
          /\ \A e2 \in SeqToSet(hvx[u].image) :
               XBlockOf(Heap, e2) = S => hedges[e2].count = hedges[e].count
          /\ hcounts[hedges[e].count].value
               = Cardinality({e2 \in SeqToSet(hvx[u].image) : XBlockOf(Heap, e2) = S})

\* =========================================================================
\* The two drivers: a program runs fba on the graph, or has the graph
\* decorated and runs update_rscp on its partition.
\* =========================================================================
InitDrivers == InitFBA \/ InitSAHA

DriverFba == HeapIdle /\ NextFBA

DriverSaha == hvx # <<>> /\ NextSAHA

NextDrivers == DriverFba \/ DriverSaha
SpecDrivers == InitDrivers /\ [][NextDrivers]_vars

\* the edges of the objects of SAHA: an edge is in the image of its source,
\* and of no other vertex, iff it is in the counterimage of its destination,
\* and of no other vertex
HeapConsistent ==
  \A e \in 1..Len(hedges) : \A u \in DOMAIN hvx :
    /\ e \in SeqToSet(hvx[u].image) =>
         /\ u = hedges[e].source
         /\ e \in SeqToSet(hvx[hedges[e].destination].counterimage)
    /\ e \in SeqToSet(hvx[u].counterimage) =>
         /\ u = hedges[e].destination
         /\ e \in SeqToSet(hvx[hedges[e].source].image)

\* the vertexes collapsed into y by fba (the keys of collapse_map are the
\* labels the survivors had at their collapse, their original labels)
CollapsedInto(y) ==
  IF y \in DOMAIN fcollapse_map THEN SeqToSet(fcollapse_map[y]) ELSE {}

\* C11 (image/counterimage consistency), as stated: after every operation
\* (add_edge, the collapse of a block in fba, the restriction and its undoing)
\* an edge (x, y) is in the image of x iff it is in the counterimage of y.
C11_ImageCounterimageConsistent ==
  /\ HeapConsistent
  /\ \A x \in DOMAIN fvx : \A y \in DOMAIN fvx :
       y \in SeqToSet(fvx[x].image) <=> x \in SeqToSet(fvx[y].counterimage)

\* C11, amended: the consistency holds for the edges of SAHA in every state
\* between the steps of update_rscp; in fba every edge of an image is in the
\* counterimage of its destination, and the counterimage of a vertex holds
\* its predecessors and, for a survivor, the predecessors of the vertexes
\* collapsed into it.
C11_ConsistentUpToCollapse ==
  /\ HeapConsistent
  /\ \A x \in DOMAIN fvx : \A y \in DOMAIN fvx :
       /\ y \in SeqToSet(fvx[x].image) => x \in SeqToSet(fvx[y].counterimage)
       /\ x \in SeqToSet(fvx[y].counterimage) <=>
            \E w \in {y} \cup CollapsedInto(y) : w \in SeqToSet(fvx[x].image)

\* update_rscp has added an edge and returned through merge_split_phase,
\* which restricted the graph and restored it
C11_Witness ==
  /\ call.pc = "returned"
  /\ call.finishing_time_list # <<>>
  /\ Len(hedges) > Len(pre.h.edges)
  /\ \E v \in V : Len(hvx[v].image) > 1

\* =========================================================================
\* The restriction of a vertex to the allowed subgraph and its undoing
\* (graph_entities.py), on the objects of a decorated graph, for every
\* assignment of the allow_visit flags.
\* =========================================================================
WithAllowVisit(h, flags) ==
  [h EXCEPT !.vx = [v \in V |-> [@[v] EXCEPT !.allow_visit = flags[v]]]]

RestrictStart(r, flags) ==
  /\ HeapIs(WithAllowVisit(r.h, flags))
  /\ partition = r.rscp
  /\ pre = [h |-> WithAllowVisit(r.h, flags), rscp |-> r.rscp]

InitRestrict ==
  /\ graph \in SUBSET (V \X V)
  /\ FbaIdle
  /\ prepared = {}
  /\ \E init \in InitialPartitions : \E flags \in [V -> BOOLEAN] :
       RestrictStart(InitialRscp(graph, init), flags)
  /\ call = NoCall
  /\ updates = 0

RestrictVertex(v) ==
  /\ call.pc = "idle"
  /\ SetHeap(restrict_to_allowed_subraph(Heap, v))
  /\ call' = [call EXCEPT !.pc = "restricted", !.source_vertex = v]
  /\ UNCHANGED <<graph, fbaVars, prepared, partition, updates, pre>>

RestoreVertex ==
  /\ call.pc = "restricted"
  /\ SetHeap(back_to_original_graph(Heap, call.source_vertex))
  /\ call' = [call EXCEPT !.pc = "restored"]
  /\ UNCHANGED <<graph, fbaVars, prepared, partition, updates, pre>>

NextRestrict == (\E v \in V : RestrictVertex(v)) \/ RestoreVertex
SpecRestrict == InitRestrict /\ [][NextRestrict]_vars

\* C12 (restriction round trip): restrict_to_allowed_subraph followed by
\* back_to_original_graph on a vertex leaves its image and its counterimage
\* as they were, the same edges in the same order, and every edge of its image
\* refers to the _Count it referred to before, with the value it had.
C12_RestrictionRoundTrip ==
  call.pc = "restored" =>
    /\ hvx[call.source_vertex].image = pre.h.vx[call.source_vertex].image
    /\ hvx[call.source_vertex].counterimage = pre.h.vx[call.source_vertex].counterimage
    /\ \A e \in SeqToSet(hvx[call.source_vertex].image) :
         /\ hedges[e].count = pre.h.edges[e].count
         /\ hcounts[hedges[e].count].value = pre.h.counts[hedges[e].count].value

\* update_rscp has returned what merge_split_phase returned
ReturnedFromMergeSplit == call.pc = "returned" /\ call.finishing_time_list # <<>>

\* the blocks of the graph at the return: the blocks handed to
\* merge_split_phase (the deteached ones too), the blocks returned and the
\* blocks of the vertexes
BlocksOfGraph ==
  SeqToSet(call.qpartition) \cup SeqToSet(call.result) \cup {hvx[v].qblock : v \in V}

\* C13 (transient state of merge_split_phase): when merge_split_phase returns,
\* visited is false on every vertex and every block, tried_merge is false on
\* every block, allow_visit is false and old_qblock_id is None on every vertex,
\* the label of every vertex is its original label, and the image and the
\* counterimage of every vertex are the unrestricted ones.
C13_MergeSplitResetsTransientState ==
  ReturnedFromMergeSplit =>
    /\ \A v \in V :
         /\ ~hvx[v].visited
         /\ ~hvx[v].allow_visit
         /\ hvx[v].old_qblock_id = None
         /\ hvx[v].label = v
         /\ SeqToSet(hvx[v].image) = {e \in 1..Len(hedges) : hedges[e].source = v}
         /\ SeqToSet(hvx[v].counterimage)
              = {e \in 1..Len(hedges) : hedges[e].destination = v}
    /\ \A b \in BlocksOfGraph : ~hqblocks[b].visited /\ ~hqblocks[b].tried_merge

\* merge_split_phase has returned after restricting, in a new _XBlock, a block
\* whose vertexes have edges, in a visit of two vertexes or more
C13_Witness ==
  /\ ReturnedFromMergeSplit
  /\ Len(call.finishing_time_list) > 1
  /\ Len(hxblocks) > Len(pre.h.xblocks)
  /\ Len(hcounts) > Len(pre.h.counts) + 1

\* C14 (visited flags of check_new_scc): when update_rscp returns, whether a
\* new SCC was found or not, no vertex and no block of the returned partition
\* has the visited flag set, so that the next update_rscp starts with none.
C14_NoVisitedFlagAtReturn ==
  call.pc = "returned" =>
    /\ \A v \in V : ~hvx[v].visited
    /\ \A b \in SeqToSet(call.result) : ~hqblocks[b].visited

\* =========================================================================
\* Claims on split_upper_ranks and the layers of fba
\* =========================================================================

\* the blocks of the partition of fba
FbaPartitionBlocks ==
  UNION {SeqToSet(fpartition[k]) : k \in 1..Len(fpartition)}

\* x has an edge into the block that was collapsed into the survivor s
EdgeIntoCollapsed(x, s) ==
  \E w \in {s} \cup CollapsedInto(s) : <<x, w>> \in graph

\* C15 (postcondition of split_upper_ranks): after split_upper_ranks(partition,
\* B), for B the block of a survivor, no block of the partition of rank
\* greater than the rank of B holds a vertex with an edge into B and a vertex
\* with none (and this stays so); every split_helper_block is None and no
\* vertex is visited.
C15_SplitUpperRanksPost ==
  /\ \A s \in DOMAIN fcollapse_map : \A b \in FbaPartitionBlocks :
       \A x, y \in SeqToSet(fblocks[b].vertexes) :
         fvx[x].rank > fvx[s].rank =>
           (EdgeIntoCollapsed(x, s) <=> EdgeIntoCollapsed(y, s))
  /\ \A b \in 1..Len(fblocks) : fblocks[b].split_helper_block = None
  /\ \A v \in DOMAIN fvx : ~fvx[v].visited

\* a split has parted two vertexes of one rank, above the rank of the block
\* B of a survivor: one with an edge into B, one with none
C15_Witness ==
  \E s \in DOMAIN fcollapse_map : \E b1, b2 \in FbaPartitionBlocks :
    \E x \in SeqToSet(fblocks[b1].vertexes), y \in SeqToSet(fblocks[b2].vertexes) :
      /\ b1 # b2
      /\ fvx[x].rank = fvx[y].rank
      /\ fvx[x].rank > fvx[s].rank
      /\ EdgeIntoCollapsed(x, s)
      /\ ~EdgeIntoCollapsed(y, s)

\* the number of places a vertex has in the blocks of the partition of fba
PlacesInPartition(v) ==
  Cardinality({<<k, i, j>> \in (1..Len(fpartition)) \X (1..Len(fblocks))
                                \X (1..NumVertices) :
                 /\ i <= Len(fpartition[k])
                 /\ j <= Len(fblocks[fpartition[k][i]].vertexes)
                 /\ fblocks[fpartition[k][i]].vertexes[j] = v})

\* the vertexes absorbed by a survivor
Absorbed == UNION {SeqToSet(fcollapse_map[s]) : s \in DOMAIN fcollapse_map}

\* the layers: a block of partition[k] holds vertexes of one rank, the rank
\* -infinity for k = 0 and the rank k - 1 above (k + 1 is the place in the
\* sequence); a vertex that was not absorbed is in one block, once all the
\* blocks of the rank in hand are back in the partition
FbaLayered ==
  /\ \A k \in 1..Len(fpartition) : \A b \in SeqToSet(fpartition[k]) :
       \A v \in SeqToSet(fblocks[b].vertexes) :
         k = (IF fvx[v].rank = NegInf THEN 1 ELSE fvx[v].rank + 2)
  /\ \A v \in DOMAIN fvx :
       /\ PlacesInPartition(v) <= 1
       /\ (ftodo = <<>> /\ v \notin Absorbed) => PlacesInPartition(v) = 1
       /\ v \in Absorbed => PlacesInPartition(v) = 0

\* a step of fba that changes the block of a vertex: the vertex is of the
\* rank in hand (partition_idx - 1, -infinity at first), in the block that
\* pta returned and the step rebuilds, or of a greater rank
FbaMovesOnlyUp ==
  \A v \in DOMAIN fvx :
    (fvx' # <<>> /\ fvx'[v].qblock # fvx[v].qblock) =>
      \/ fvx[v].rank > fidx - 1
      \/ /\ fvx[v].rank = fidx - 1
         /\ ftodo # <<>>
         /\ fvx[v].label \in SeqToSet(Head(ftodo))
         /\ fscaled[fvx[v].label + 1] = v

BlockImage(h, block) ==
  {h.vx[h.edges[e].destination].qblock :
     e \in UNION {SeqToSet(h.vx[v].image) : v \in SeqToSet(h.qblocks[block].vertexes)}}

\* a causal splitter of block1 and block2, as the claim defines it: a block in
\* the image of exactly one of the two, of rank smaller than the rank of
\* block1 or equal to the other block (the one whose image it is not in)
CausalSplitter(h, block1, block2, C) ==
  /\ (C \in BlockImage(h, block1)) # (C \in BlockImage(h, block2))
  /\ \/ QBlockRank(h, C) < QBlockRank(h, block1)
     \/ C = (IF C \in BlockImage(h, block1) THEN block2 ELSE block1)

MergeConditionDef(h, block1, block2) ==
  /\ QBlockInitialId(h, block1) = QBlockInitialId(h, block2)
  /\ block1 # block2
  /\ QBlockRank(h, block1) = QBlockRank(h, block2)
  /\ ~h.qblocks[block1].deteached /\ ~h.qblocks[block2].deteached
  /\ ~\E C \in 1..Len(h.qblocks) : CausalSplitter(h, block1, block2, C)

\* the blocks that hold vertexes
NonEmptyBlocks == {b \in 1..Len(hqblocks) : hqblocks[b].vertexes # <<>>}

\* C17 (merge condition): merge_condition(B1, B2) is true exactly when B1 and
\* B2 have the same initial-partition id, are two blocks, have the same rank,
\* neither is deteached, and there is no causal splitter.
C17_MergeConditionExact ==
  \A block1, block2 \in NonEmptyBlocks :
    merge_condition(Heap, block1, block2, FALSE) <=> MergeConditionDef(Heap, block1, block2)

\* the blocks of the heap are stable for its edges: the vertexes of a block
\* go into the same blocks
StableForEdges(h) ==
  \A x, y \in V :
    h.vx[x].qblock = h.vx[y].qblock =>
      {h.vx[w].qblock : w \in Succ(HeapEdges(h), x)}
        = {h.vx[w].qblock : w \in Succ(HeapEdges(h), y)}

\* [u] => [v]: a vertex of the block of u has an edge to a vertex of the block of v
BlockReachesBlock(h, u, v) ==
  \E x, y \in V :
    /\ h.vx[x].qblock = h.vx[u].qblock
    /\ h.vx[y].qblock = h.vx[v].qblock
    /\ <<x, y>> \in HeapEdges(h)

\* C18 (old-blocks relation): check_old_blocks_relation(u, v), called on a
\* partition that is stable for the graph before the new edge, returns True
\* iff [u] => [v], i.e. iff a vertex of the block of u has an edge to a vertex
\* of the block of v, also when the block of u is {u} and the edges of u into
\* [v] go to other members of [v] than v.
C18_OldBlocksRelationExact ==
  (call.pc = "entered" /\ StableForEdges(Heap)) =>
    (check_old_blocks_relation(Heap, call.source_vertex, call.destination_vertex)
       <=> BlockReachesBlock(Heap, call.source_vertex, call.destination_vertex))

\* the rank and the wf of every vertex of the heap are those of the inductive
\* definition on the edges of the heap
RanksAsDefined(h) ==
  \A v \in V :
    /\ VertexRank(h, v) = RankDef(HeapEdges(h), v)
    /\ VertexWf(h, v).wf = CannotReachCycle(HeapEdges(h), v)

\* update_rscp has added the new edge and returned
ReturnedWithNewEdge == call.pc = "returned" /\ Len(hedges) > Len(pre.h.edges)

\* C19 (ranks after an update): after update_rscp has added the edge (u,v)
\* and returned, the rank and the wf of every vertex equal the inductive
\* definition evaluated on the updated graph, on every dispatch branch (the
\* ranks and the wf were those of the definition when the call was made).
C19_RanksAsDefinedAfterUpdate ==
  (ReturnedWithNewEdge /\ RanksAsDefined(pre.h)) => RanksAsDefined(Heap)

\* the vertexes that a backward visit from u reaches: u and the vertexes with
\* a path to u
ReachBackward(G, u) == {w \in V : u \in Reach(G, w)}

\* the list holds each of the vertexes of S once
HoldsEachOnce(list, S) ==
  /\ SeqToSet(list) = S
  /\ Len(list) = Cardinality(S)

\* a finishing order of a backward depth-first visit from u: u ends last, and
\* a vertex ends after its predecessors but those it is on a cycle with
\* (they can be its ancestors in the visit)
FinishingOrder(G, list, u) ==
  /\ list # <<>> /\ list[Len(list)] = u
  /\ \A i, j \in 1..Len(list) :
       (<<list[j], list[i]>> \in G /\ list[j] \notin SccOf(G, list[i])) => j < i

\* what the claim says of the result r of check_new_scc(u, v, [])
CheckNewSccPost(G, r, u, v) ==
  /\ r.found <=> v \in ReachBackward(G, u)
  /\ HoldsEachOnce(r.ftl, ReachBackward(G, u))
  /\ FinishingOrder(G, r.ftl, u)

\* update_rscp has added the new edge and is before its dispatch, and no
\* vertex is flagged as visited
BeforeCheckNewScc ==
  /\ call.pc = "dispatch"
  /\ <<call.source_vertex, call.destination_vertex>> \in HeapEdges(Heap)
  /\ \A x \in V : ~hvx[x].visited

\* C20 (new-SCC detection): check_new_scc(u, v, finishing_time_list), called
\* after the edge (u,v) was added with no visited flag set, returns True iff
\* there is a directed path from v to u (u = v included), and appends to the
\* list every vertex that the backward visit reaches exactly once, in the
\* finishing order of the visit.
C20_CheckNewSccPost ==
  BeforeCheckNewScc =>
    CheckNewSccPost(HeapEdges(Heap),
                    check_new_scc(Heap, call.source_vertex, call.destination_vertex),
                    call.source_vertex, call.destination_vertex)

\* a call on two vertexes in which the visit finds v behind u and another
\* vertex too
C20_Witness ==
  /\ BeforeCheckNewScc
  /\ call.source_vertex # call.destination_vertex
  /\ call.destination_vertex \in ReachBackward(HeapEdges(Heap), call.source_vertex)
  /\ Cardinality(ReachBackward(HeapEdges(Heap), call.source_vertex)) = NumVertices

\* update_rscp is before its dispatch, on the way to lines 659-666: u is not
\* well founded (nor is v, or lines 605-615 would run), the rank of u is
\* lower than the rank of v, and check_new_scc finds no new SCC
NwfLowerRankBranch ==
  /\ call.pc = "dispatch"
  /\ ~VertexWf(Heap, call.source_vertex).wf
  /\ ~VertexWf(Heap, call.destination_vertex).wf
  /\ VertexRank(Heap, call.source_vertex) < VertexRank(Heap, call.destination_vertex)
  /\ ~check_new_scc(Heap, call.source_vertex, call.destination_vertex).found

\* C21 (u not well founded, of lower rank): in update_rscp, when u.rank <=
\* v.rank, no new SCC is formed and u is non-well-founded with u.rank <
\* v.rank, the rank of u is set to the rank of v and propagated, and the call
\* goes on to the merge and the return of the filtered partition.
C21_NwfRankRaisedThenMerge ==
  [][NwfLowerRankBranch =>
       /\ call'.pc = "merge"
       /\ hsccs'[hvx'[call.source_vertex].scc].rank
            = VertexRank(Heap, call.destination_vertex)]_vars

\* =========================================================================
\* SAHA on larger graphs: one call of update_rscp on the RSCP of a graph of
\* MergeVertices vertexes and at most MaxMergeEdges edges, inside an initial
\* partition of at most two blocks, with a new edge between two vertexes.
\* =========================================================================
MergeVertices == 4
MaxMergeEdges == 4
MergeV == 0..(MergeVertices - 1)

InitMerge ==
  /\ graph \in {G \in SUBSET (MergeV \X MergeV) : Cardinality(G) <= MaxMergeEdges}
  /\ FbaIdle
  /\ prepared = {}
  /\ \E init \in {f \in [MergeV -> {0, 1}] : f[0] = 0} :
       SahaStart(InitialRscp(graph, init))
  /\ call = NoCall
  /\ updates = 0

MergeEnter(new_edge) ==
  /\ updates = 0
  /\ SahaEnter(new_edge)

NextMerge ==
  \/ \E a, b \in MergeV : MergeEnter([kind |-> "int", a |-> a, b |-> b])
  \/ SahaRelation
  \/ SahaRanks
  \/ SahaMerge
  \/ SahaMergeSplit
SpecMerge == InitMerge /\ [][NextMerge]_vars

\* the vertexes with an edge to a vertex of the list
PredecessorsOf(h, vertexes) ==
  {h.edges[e].source :
     e \in UNION {SeqToSet(h.vx[v].counterimage) : v \in SeqToSet(vertexes)}}

\* what the claim says of the heap r that recursive_merge(block1, block2)
\* leaves, called on the heap h: block2 went into block1, and no two blocks
\* that hold a predecessor of a former vertex of block1 and a predecessor of a
\* former vertex of block2 can be merged
RecursiveMergePost(h, r, block1, block2) ==
  /\ r.qblocks[block2].deteached
  /\ \A x, y \in SeqToSet(h.qblocks[block1].vertexes \o h.qblocks[block2].vertexes) :
       r.vx[x].qblock = r.vx[y].qblock
  /\ \A x \in PredecessorsOf(h, h.qblocks[block1].vertexes),
        y \in PredecessorsOf(h, h.qblocks[block2].vertexes) :
       ~merge_condition(r, r.vx[x].qblock, r.vx[y].qblock, FALSE)

\* the blocks u1block that merge_phase(ublock, vblock) can hand to
\* recursive_merge with ublock: update_rscp is before merge_phase
MergePhaseCandidates ==
  IF call.pc = "merge"
  THEN {b \in {hvx[x].qblock :
                 x \in PredecessorsOf(Heap, hqblocks[hvx[call.destination_vertex].qblock].vertexes)} :
          merge_condition(Heap, hvx[call.source_vertex].qblock, b, FALSE)}
  ELSE {}

\* C22 (recursive merge): when recursive_merge merges (B1, B2), every pair of
\* blocks that hold a predecessor of a former vertex of B1 and a predecessor
\* of a former vertex of B2 is evaluated and merged when the merge condition
\* holds, transitively; on return no such pair of non-deteached blocks still
\* satisfies the merge condition.
C22_RecursiveMergePost ==
  \A u1block \in MergePhaseCandidates :
    RecursiveMergePost(Heap,
                       recursive_merge(Heap, hvx[call.source_vertex].qblock, u1block),
                       hvx[call.source_vertex].qblock, u1block)

\* the blocks that a call of recursive_merge makes deteached
DeteachedBy(h, r) ==
  {b \in 1..Len(h.qblocks) : r.qblocks[b].deteached /\ ~h.qblocks[b].deteached}

\* a call of recursive_merge that merges a pair of predecessor blocks too
C22_Witness ==
  \E u1block \in MergePhaseCandidates :
    Cardinality(DeteachedBy(Heap, recursive_merge(Heap, hvx[call.source_vertex].qblock,
                                                  u1block))) >= 2

\* the places of the returned list whose block holds the vertex
PlacesInResult(v) ==
  {i \in 1..Len(call.result) : v \in SeqToSet(hqblocks[call.result[i]].vertexes)}

\* C23 (returned partition): the partition returned by update_rscp after an
\* edge was added contains no deteached block, and every vertex of the graph
\* is a member of exactly one returned block, which is the block its qblock
\* reference points to, on the merge_phase paths and on the merge_split_phase
\* path.
C23_ReturnedPartition ==
  ReturnedWithNewEdge =>
    /\ \A i \in 1..Len(call.result) : ~hqblocks[call.result[i]].deteached
    /\ \A v \in V :
         /\ Cardinality(PlacesInResult(v)) = 1
         /\ \A i \in PlacesInResult(v) : call.result[i] = hvx[v].qblock

\* a return of the merge_phase path after a merge, with a deteached block left
\* out of the list
C23_Witness ==
  /\ ReturnedWithNewEdge
  /\ call.finishing_time_list = <<>>
  /\ \E b \in SeqToSet(call.qpartition) :
       hqblocks[b].deteached /\ b \notin SeqToSet(call.result)

\* =========================================================================
\* Termination of update_rscp. The program is sequential: nothing else runs
\* while a call is running, so a call ends if each of its steps ends (the
\* step, recursions included, evaluates to a call record) and leaves the call
\* at a later position of the finitely many there are.
\* =========================================================================
\* update_rscp is running
InCall == call.pc \in {"entered", "dispatch", "merge", "merge_split"}

\* the positions of a call in the order of lines 560-671: the relation test
\* and add_edge, the update of the ranks, merge_split_phase or merge_phase,
\* the end (a return or an exception)
Position(pc) ==
  CASE pc = "entered" -> 0
    [] pc = "dispatch" -> 1
    [] pc = "merge_split" -> 2
    [] pc = "merge" -> 2
    [] pc \in {"returned", "raised"} -> 3

====
